---- MODULE Spec2Model ----
(***************************************************************************)
(* Morpheus graph layer (src/src/graph/mod.rs): the Graph facade, the      *)
(* GraphTransaction operations and the transaction closure run by the cell *)
(* store's optimistic engine.  The edge variants, the Id List, the vertex  *)
(* helpers and the schema container live in sibling modules (graph::edge,  *)
(* graph::id_list, graph::vertex, server::schema) and are modelled from    *)
(* their documented behaviour.                                             *)
(***************************************************************************)
EXTENDS Integers, Sequences, FiniteSets, TLC

\* ------------------------------------------------------------ bounds
\* Vertex primary keys are 1..MaxKey.
MaxKey == 2
\* A link closure is begun only while the store holds fewer than MaxLinks
\* edges (counted by their list entries and body cells).
MaxLinks == 1
\* The same budget where callers only link and list (ChainSpec).
MaxChain == 3
\* Schema ids handed to the operations are 1..MaxSchemaId.
MaxSchemaId == 5

Procs == {"p1", "p2"}
Keys == 1..MaxKey
Vals == {0, 1}
SchemaIds == 1..MaxSchemaId

None == [none |-> TRUE]

\* ------------------------------------------------------------ results
\* Result<Result<T, E>, TxnError>: the outer layer is the transaction
\* engine's, the inner one the domain's.  Errors are tuples of variant
\* names (nested variants are longer tuples).
TxnErr(e) == [outer |-> "Err", txn_error |-> e]
OkErr(e) == [outer |-> "Ok", inner |-> "Err", err |-> e]
OkUnit == [outer |-> "Ok", inner |-> "Ok"]
IsOkOk(r) == r.outer = "Ok" /\ r.inner = "Ok"

\* ------------------------------------------------------------ ids, fields
\* neb Id { higher, lower }.
unit_id == [higher |-> 0, lower |-> 0]
\* Cell::encode_cell_key: the schema id and the hash of the key, here 2 * key + 1.
encode_cell_key(schema_id, key) == [higher |-> schema_id, lower |-> 2 * key + 1]

INBOUND_KEY_ID == "_inbound"
OUTBOUND_KEY_ID == "_outbound"
UNDIRECTED_KEY_ID == "_undirected"
HiddenFields == {INBOUND_KEY_ID, OUTBOUND_KEY_ID, UNDIRECTED_KEY_ID}

EdgeDirection == {"Inbound", "Outbound", "Undirected"}
as_field(ed) ==
  CASE ed = "Inbound" -> INBOUND_KEY_ID
    [] ed = "Outbound" -> OUTBOUND_KEY_ID
    [] ed = "Undirected" -> UNDIRECTED_KEY_ID

\* ------------------------------------------------------------ maps, store
InsertKey(map, k, v) == [x \in DOMAIN map \cup {k} |-> IF x = k THEN v ELSE map[x]]
Restrict(map, ks) == [x \in DOMAIN map \cap ks |-> map[x]]
Put(S, a, v) == [x \in DOMAIN S \cup {a} |-> IF x = a THEN v ELSE S[x]]
Del(S, A) == [x \in DOMAIN S \ A |-> S[x]]
\* F applied to the value of x, which is computed once.
Bind(F(_), x) == CHOOSE r \in {F(v) : v \in {x}} : TRUE

\* ------------------------------------------------------------ state
VARIABLES
  boot,         \* per concurrent caller: where its Graph::new call is
  nebSchemas,   \* the built-in schemas the catalog holds (subset of BaseSchemaIds)
  schemas,      \* the user schemas of the SchemaContainer: id -> descriptor
  constructed,  \* a Graph has been constructed
  store,        \* the committed cells: address -> content
  txn,          \* per concurrent caller: its store transaction and closure
  last          \* the call that returned last, and what it returned

vars == <<nebSchemas, schemas, constructed, boot, store, txn, last>>

\* ------------------------------------------------------------ catalog
ID_LIST_SCHEMA_ID == 100
TYPE_LIST_SCHEMA_ID == 200
BaseSchemaIds == {ID_LIST_SCHEMA_ID, TYPE_LIST_SCHEMA_ID}

\* The MorpheusSchema value callers hand to new_vertex_group: an id and a
\* field layout; schema_type is set by the callee.
VertexSchema(id) == [id |-> id, fields |-> {"key", "val"}]

\* SchemaContainer::schema_type.
schema_type(schema_id) ==
  IF schema_id \in DOMAIN schemas THEN schemas[schema_id] ELSE None

\* What the schema service answers to a registration.
SchemaAnswers == {"Accepted", "Rejected"}

\* SchemaContainer::new_schema: the descriptor is added under its id, unless
\* the schema service rejects it or the catalog already holds the id.
new_schema(schema, answer) ==
  IF answer = "Rejected" \/ schema.id \in DOMAIN schemas
  THEN [ok |-> FALSE, schemas |-> schemas]
  ELSE [ok |-> TRUE, schemas |-> Put(schemas, schema.id, schema)]

\* Graph::new_vertex_group and Graph::new_edge_group: schema_type is set,
\* whatever the caller's value held, and the schema handed to new_schema.
AsVertex(schema) == [id |-> schema.id, kind |-> "Vertex", fields |-> schema.fields]
AsEdge(schema, edge_attrs) ==
  [id |-> schema.id, kind |-> "Edge", attrs |-> edge_attrs, fields |-> schema.fields]
new_vertex_group(schema, answer) == new_schema(AsVertex(schema), answer)
new_edge_group(schema, edge_attrs, answer) ==
  new_schema(AsEdge(schema, edge_attrs), answer)

\* SchemaContainer::get_neb_schema: the stored layout of a schema.  A vertex
\* schema's layout holds the three adjacency fields beside the user's.
get_neb_schema(schema_id) ==
  IF schema_id \in DOMAIN schemas
  THEN [id |-> schema_id,
        fields |-> schemas[schema_id].fields \cup
                   (IF schemas[schema_id].kind = "Vertex" THEN HiddenFields ELSE {})]
  ELSE IF schema_id \in nebSchemas
  THEN [id |-> schema_id, fields |-> {"list"}]
  ELSE None

\* neb Cell::new(schema, Value::Map(data)): a cell when the map has every
\* field of the layout, addressed by the hash of its key field.
Cell_new(neb_schema, data) ==
  IF neb_schema.fields \subseteq DOMAIN data
  THEN [ok |-> TRUE,
        cell |-> [id |-> encode_cell_key(neb_schema.id, data["key"]),
                  schema |-> neb_schema.id,
                  data |-> Restrict(data, neb_schema.fields)]]
  ELSE [ok |-> FALSE, err |-> <<"CannotGenerateCellByData">>]

\* Vertex::new(schema_id, data): an unsaved vertex over the caller's map.
Vertex_new(schema_id, data) == [schema |-> schema_id, data |-> data]

\* A faulty variant of WithAdjacency, which keeps what the map already holds
\* under an adjacency key.
WithAdjacency_keeping(data) ==
  [k \in DOMAIN data \cup HiddenFields |->
     IF k \in DOMAIN data THEN data[k] ELSE unit_id]

\* The three inserts of vertex_to_cell_for_write: every adjacency field is
\* set to the unit id, whatever the map held under that key.
WithAdjacency(data) ==
  InsertKey(InsertKey(InsertKey(data,
    INBOUND_KEY_ID, unit_id), OUTBOUND_KEY_ID, unit_id), UNDIRECTED_KEY_ID, unit_id)

\* A Value that is not a Value::Map.
ScalarValue == [scalar |-> TRUE]

\* A faulty variant of vertex_to_cell_for_write, which mixes up the two
\* schema errors.
vertex_to_cell_for_write_mixed(vertex) ==
  IF schema_type(vertex.schema) = None
  THEN [ok |-> FALSE, err |-> <<"SchemaNotVertex">>]
  ELSE IF schema_type(vertex.schema).kind # "Vertex"
  THEN [ok |-> FALSE, err |-> <<"SchemaNotFound">>]
  ELSE IF get_neb_schema(vertex.schema) = None
  THEN [ok |-> FALSE, err |-> <<"SchemaNotFound">>]
  ELSE IF vertex.data = ScalarValue
  THEN [ok |-> FALSE, err |-> <<"DataNotMap">>]
  ELSE Cell_new(get_neb_schema(vertex.schema), WithAdjacency(vertex.data))

vertex_to_cell_for_write(vertex) ==
  IF schema_type(vertex.schema) = None
  THEN [ok |-> FALSE, err |-> <<"SchemaNotFound">>]
  ELSE IF schema_type(vertex.schema).kind # "Vertex"
  THEN [ok |-> FALSE, err |-> <<"SchemaNotVertex">>]
  ELSE IF get_neb_schema(vertex.schema) = None
  THEN [ok |-> FALSE, err |-> <<"SchemaNotFound">>]
  ELSE IF vertex.data = ScalarValue
  THEN [ok |-> FALSE, err |-> <<"DataNotMap">>]
  ELSE Cell_new(get_neb_schema(vertex.schema), WithAdjacency(vertex.data))

\* vertex::cell_to_vertex: the three adjacency fields are taken out of the
\* data map into the vertex's handles.
cell_to_vertex(cell) ==
  [id |-> cell.id,
   schema |-> cell.schema,
   data |-> Restrict(cell.data, DOMAIN cell.data \ HiddenFields),
   inbound |-> cell.data[INBOUND_KEY_ID],
   outbound |-> cell.data[OUTBOUND_KEY_ID],
   undirected |-> cell.data[UNDIRECTED_KEY_ID]]

\* How the store serves one single-cell call of the neb client: it serves
\* it, the transport fails (RPCError), or the store reports an error of its
\* own beside the ones that depend on the cell.
StoreAnswers == {"Served", "IOError", "Other"}

\* neb client read_cell(id): Result<Result<Cell, ReadError>, RPCError>.
read_cell(S, id, answer) ==
  IF answer = "IOError" THEN [outer |-> "Err", rpc_error |-> "IOError"]
  ELSE IF answer = "Other" THEN [outer |-> "Ok", inner |-> "Err", err |-> "Other"]
  ELSE IF id \in DOMAIN S THEN [outer |-> "Ok", inner |-> "Ok", cell |-> S[id]]
  ELSE [outer |-> "Ok", inner |-> "Err", err |-> "CellDoesNotExisted"]

\* Faulty variants of the match of Graph::read_vertex, which the properties
\* below must tell from the code's: one hands out the cell's data map as it
\* is stored, one reports a missing cell as a storage error.
read_vertex_raw(r) ==
  IF r.outer = "Err"
  THEN [ok |-> FALSE, some |-> FALSE, err |-> <<"RPCError", r.rpc_error>>]
  ELSE IF r.inner = "Err" /\ r.err = "CellDoesNotExisted"
  THEN [ok |-> TRUE, some |-> FALSE]
  ELSE IF r.inner = "Err"
  THEN [ok |-> FALSE, some |-> FALSE, err |-> <<"ReadError", r.err>>]
  ELSE [ok |-> TRUE, some |-> TRUE,
        vertex |-> [id |-> r.cell.id, schema |-> r.cell.schema, data |-> r.cell.data]]
read_vertex_strict(r) ==
  IF r.outer = "Err"
  THEN [ok |-> FALSE, some |-> FALSE, err |-> <<"RPCError", r.rpc_error>>]
  ELSE IF r.inner = "Err"
  THEN [ok |-> FALSE, some |-> FALSE, err |-> <<"ReadError", r.err>>]
  ELSE [ok |-> TRUE, some |-> TRUE, vertex |-> cell_to_vertex(r.cell)]

\* The match of Graph::read_vertex on the store's answer r, arm by arm.
read_vertex_match(r) ==
  IF r.outer = "Err"
  THEN [ok |-> FALSE, some |-> FALSE, err |-> <<"RPCError", r.rpc_error>>]
  ELSE IF r.inner = "Err" /\ r.err = "CellDoesNotExisted"
  THEN [ok |-> TRUE, some |-> FALSE]
  ELSE IF r.inner = "Err"
  THEN [ok |-> FALSE, some |-> FALSE, err |-> <<"ReadError", r.err>>]
  ELSE [ok |-> TRUE, some |-> TRUE, vertex |-> cell_to_vertex(r.cell)]

read_vertex(S, id, answer) == read_vertex_match(read_cell(S, id, answer))

get_vertex(S, schema_id, key, answer) ==
  read_vertex(S, encode_cell_key(schema_id, key), answer)

\* ------------------------------------------------------------ Id List
\* What one operation did to the transaction's view: the view after it, the
\* addresses it read and wrote, and its double-wrapped result.
Eff(S, reads, writes, res) == [S |-> S, reads |-> reads, writes |-> writes, res |-> res]

\* What the store answers to a call of the transaction (neb_txn.read,
\* neb_txn.write, the calls of an Id List operation): it serves the call,
\* or the call fails with a TxnError.
TxnAnswers == {"Served", "NotRealizable"}

\* Segment capacity of one Id List cell.
LIST_CAPACITY == 2

\* An Id List is a chain of segment cells; the n-th segment of the list of
\* (container, field, schema) has an address of its own, the first is the head.
ListAddr(container, field, schema_id) ==
  [owner |-> container, field |-> field, schema |-> schema_id, seg |-> 1]
\* The address a full segment's successor is allocated at.
NextSeg(a) == [a EXCEPT !.seg = @ + 1]
\* A segment cell, a cell of the built-in Id List schema: its member ids and
\* the address of the next segment, the unit id for the tail.
Segment(ids, next) == [schema |-> ID_LIST_SCHEMA_ID, ids |-> ids, next |-> next]

\* The identifier a vertex's adjacency handle takes once materialized.
TypeListId(container, field) ==
  [higher |-> TYPE_LIST_SCHEMA_ID,
   lower |-> 4 * container.lower + (CASE field = INBOUND_KEY_ID -> 1
                                      [] field = OUTBOUND_KEY_ID -> 2
                                      [] field = UNDIRECTED_KEY_ID -> 3)]

\* The segment addresses reached from a by following the next pointers.
RECURSIVE ChainFrom(_, _)
ChainFrom(S, a) ==
  IF a \notin DOMAIN S THEN <<>>
  ELSE IF S[a].next = unit_id THEN <<a>>
  ELSE <<a>> \o ChainFrom(S, S[a].next)

\* The member ids of the segments of a chain, in chain order.
RECURSIVE IdsAlong(_, _)
IdsAlong(S, chain) ==
  IF chain = <<>> THEN <<>> ELSE S[Head(chain)].ids \o IdsAlong(S, Tail(chain))

OkIds(ids) == [outer |-> "Ok", inner |-> "Ok", ids |-> ids]

\* IdList::all: walks the segment chain under the container's handle; a
\* failing read of the transaction ends it with the TxnError.
IdList_all(S, container, field, schema_id, answer) ==
  IF answer # "Served" THEN Eff(S, {container}, {}, TxnErr(answer))
  ELSE IF container \notin DOMAIN S
  THEN Eff(S, {container}, {}, OkErr(<<"ContainerCellNotFound">>))
  ELSE IF S[container].data[field] = unit_id
  THEN Eff(S, {container}, {}, OkIds(<<>>))
  ELSE IF ListAddr(container, field, schema_id) \notin DOMAIN S
  THEN Eff(S, {container, ListAddr(container, field, schema_id)}, {}, OkIds(<<>>))
  ELSE Bind(LAMBDA chain : Eff(S, {container} \cup {chain[i] : i \in DOMAIN chain}, {},
                               OkIds(IdsAlong(S, chain))),
            ChainFrom(S, ListAddr(container, field, schema_id)))

\* The segment cells under (container, field), for every schema.
ListsOf(S, container, field) ==
  {a \in DOMAIN S : "owner" \in DOMAIN a /\ a.owner = container /\ a.field = field}

\* A null handle is materialized: the container cell is rewritten to point at
\* a new, empty list.
Materialize(S, container, field) ==
  Put(Del(S, ListsOf(S, container, field)), container,
      [S[container] EXCEPT !.data[field] = TypeListId(container, field)])


\* Appending to the list whose head is at `head` and whose chain is `chain`:
\* the head segment is created when there is none yet; else the id goes
\* into the last segment, or into a new segment linked after it when the
\* last is full.
AppendAlong(S, head, chain, id) ==
  IF chain = <<>>
  THEN Eff(Put(S, head, Segment(<<id>>, unit_id)), {head}, {head}, OkUnit)
  ELSE Bind(LAMBDA tail :
              IF Len(S[tail].ids) < LIST_CAPACITY
              THEN Eff(Put(S, tail, Segment(Append(S[tail].ids, id), unit_id)),
                       {head} \cup {chain[i] : i \in DOMAIN chain}, {tail}, OkUnit)
              ELSE Eff(Put(Put(S, NextSeg(tail), Segment(<<id>>, unit_id)),
                           tail, Segment(S[tail].ids, NextSeg(tail))),
                       {head} \cup {chain[i] : i \in DOMAIN chain},
                       {tail, NextSeg(tail)}, OkUnit),
            chain[Len(chain)])

AppendAt(S, head, id) ==
  Bind(LAMBDA chain : AppendAlong(S, head, chain, id), ChainFrom(S, head))

\* IdList::append; a failing call of the transaction ends it with the
\* TxnError, before anything is written.  An append that materialized the
\* container's handle wrote the container and the list cells it dropped too.
IdList_append(S, container, field, schema_id, id, answer) ==
  IF answer # "Served" THEN Eff(S, {container}, {}, TxnErr(answer))
  ELSE IF container \notin DOMAIN S
  THEN Eff(S, {container}, {}, OkErr(<<"ContainerCellNotFound">>))
  ELSE IF S[container].data[field] = unit_id
  THEN Bind(LAMBDA e : Eff(e.S, e.reads \cup {container},
                           e.writes \cup {container} \cup ListsOf(S, container, field),
                           OkUnit),
            AppendAt(Materialize(S, container, field),
                     ListAddr(container, field, schema_id), id))
  ELSE Bind(LAMBDA e : Eff(e.S, e.reads \cup {container}, e.writes, OkUnit),
            AppendAt(S, ListAddr(container, field, schema_id), id))
\* ------------------------------------------------------------ edges
\* The identifier (Id::rand) of an edge body cell: the n-th of the pool.
BodyId(n) == [higher |-> 0, lower |-> n]
BodyIds == {BodyId(n) : n \in 1..(MaxLinks + MaxChain)}

OkEdge(edge) == [outer |-> "Ok", inner |-> "Ok", edge |-> edge]
Edge(edge_type, schema_id, a, b, body) ==
  [type |-> edge_type, schema |-> schema_id, a |-> a, b |-> b, body |-> body]

\* e followed by f, when e succeeded: the reads and writes add up.
After(e, f) == Eff(f.S, e.reads \cup f.reads, e.writes \cup f.writes, f.res)
\* A registration that did not succeed: a TxnError passes as it is, an Id
\* List error becomes an EdgeError.
ListFailed(e) ==
  IF e.res.outer = "Err" THEN e
  ELSE Eff(e.S, e.reads, e.writes, OkErr(<<"IdListError">> \o e.res.err))

\* What the store answers to the calls of one link: to the write of the body
\* cell and to the two registrations.  At most one of them fails.
AllServed == [body |-> "Served", a |-> "Served", b |-> "Served"]
LinkAnswers ==
  {AllServed,
   [AllServed EXCEPT !.body = "NotRealizable"],
   [AllServed EXCEPT !.a = "NotRealizable"],
   [AllServed EXCEPT !.b = "NotRealizable"]}

\* Both registrations on the view S1, in which w1 was already written; the
\* second is not attempted when the first (e1) failed.
Register(S1, w1, vertex_a, vertex_b, schema_id, field_a, field_b, pointer_a, pointer_b, answers) ==
  Bind(LAMBDA e : After(Eff(S1, {}, w1, OkUnit), e),
       Bind(LAMBDA e1 :
              IF ~IsOkOk(e1.res) THEN ListFailed(e1)
              ELSE Bind(LAMBDA e2 : After(e1, e2),
                        IdList_append(e1.S, vertex_b, field_b, schema_id, pointer_b,
                                      answers.b)),
            IdList_append(S1, vertex_a, field_a, schema_id, pointer_a, answers.a)))

LinkDone(e, edge) ==
  IF e.res.outer = "Err" THEN e
  ELSE IF e.res.inner = "Err"
  THEN (IF e.res.err[1] = "IdListError" THEN e ELSE ListFailed(e))
  ELSE Eff(e.S, e.reads, e.writes, OkEdge(edge))

BodyCell(id, schema_id, body, vertex_a, vertex_b) ==
  [id |-> id, schema |-> schema_id,
   data |-> InsertKey(InsertKey(body, "_vertex_a", vertex_a), "_vertex_b", vertex_b)]

\* BilateralEdge::link for the edge type whose two adjacency fields are
\* field_a (on vertex_a) and field_b (on vertex_b): the body presence is
\* checked, the body cell (if any) written, and the edge registered in both
\* lists, under its body cell's id or, without a body, under the opposite
\* vertex's id.  A call of the transaction that fails ends the link with the
\* TxnError, after what was written before it.
Bilateral_link(S, vertex_a, vertex_b, body, schema_id, field_a, field_b, edge_type, fresh_id, answers) ==
  IF schema_type(schema_id).attrs.has_body /\ body = None
  THEN Eff(S, {}, {}, OkErr(<<"BodyRequired">>))
  ELSE IF ~schema_type(schema_id).attrs.has_body /\ body # None
  THEN Eff(S, {}, {}, OkErr(<<"BodyShouldNotExisted">>))
  ELSE IF schema_type(schema_id).attrs.has_body /\ answers.body # "Served"
  THEN Eff(S, {}, {}, TxnErr(answers.body))
  ELSE IF schema_type(schema_id).attrs.has_body
  THEN Bind(LAMBDA e : LinkDone(e, Edge(edge_type, schema_id, vertex_a, vertex_b, fresh_id)),
            Register(Put(S, fresh_id, BodyCell(fresh_id, schema_id, body, vertex_a, vertex_b)),
                     {fresh_id}, vertex_a, vertex_b, schema_id, field_a, field_b,
                     fresh_id, fresh_id, answers))
  ELSE Bind(LAMBDA e : LinkDone(e, Edge(edge_type, schema_id, vertex_a, vertex_b, unit_id)),
            Register(S, {}, vertex_a, vertex_b, schema_id, field_a, field_b,
                     vertex_b, vertex_a, answers))

DirectedEdge_link(S, from_id, to_id, body, schema_id, fresh_id, answers) ==
  Bilateral_link(S, from_id, to_id, body, schema_id,
                 OUTBOUND_KEY_ID, INBOUND_KEY_ID, "Directed", fresh_id, answers)

UndirectedEdge_link(S, from_id, to_id, body, schema_id, fresh_id, answers) ==
  Bilateral_link(S, from_id, to_id, body, schema_id,
                 UNDIRECTED_KEY_ID, UNDIRECTED_KEY_ID, "Undirected", fresh_id, answers)

\* A cell the bound transaction cannot read any more: its read returns a
\* TxnError.
Unrealizable == [unrealizable |-> TRUE]

\* edge::from_id: the typed edge one member id of vertex_id's list stands for.
\* A body-less edge's member is the opposite endpoint; otherwise it is the
\* edge's body cell, which holds both endpoints.
edge_from_id(S, vertex_id, vertex_field, schema_id, id) ==
  IF schema_type(schema_id) = None
  THEN Eff(S, {}, {}, OkErr(<<"WrongSchema">>))
  ELSE IF schema_type(schema_id).kind # "Edge"
  THEN Eff(S, {}, {}, OkErr(<<"WrongSchema">>))
  ELSE IF ~schema_type(schema_id).attrs.has_body
  THEN Eff(S, {}, {},
           OkEdge(Edge(schema_type(schema_id).attrs.edge_type, schema_id,
                       IF vertex_field = INBOUND_KEY_ID THEN id ELSE vertex_id,
                       IF vertex_field = INBOUND_KEY_ID THEN vertex_id ELSE id,
                       unit_id)))
  ELSE IF id \notin DOMAIN S
  THEN Eff(S, {id}, {}, OkErr(<<"CellNotFound">>))
  ELSE IF S[id] = Unrealizable
  THEN Eff(S, {id}, {}, TxnErr("NotRealizable"))
  ELSE Eff(S, {id}, {},
           OkEdge(Edge(schema_type(schema_id).attrs.edge_type, schema_id,
                       S[id].data["_vertex_a"], S[id].data["_vertex_b"], id)))

\* ------------------------------------------------------------ vertex removal
\* vertex::txn_remove: validates that the cell exists and is a vertex, then
\* removes it.  No Id List is touched.
txn_remove(S, id) ==
  IF id \notin DOMAIN S
  THEN Eff(S, {id}, {}, OkErr(<<"CellNotFound">>))
  ELSE IF schema_type(S[id].schema) = None
  THEN Eff(S, {id}, {}, OkErr(<<"NotVertex">>))
  ELSE IF schema_type(S[id].schema).kind # "Vertex"
  THEN Eff(S, {id}, {}, OkErr(<<"NotVertex">>))
  ELSE Eff(Del(S, {id}), {id}, {id}, OkUnit)

\* ------------------------------------------------------------ vertex update
\* The update functions a caller passes (U: Fn(Vertex) -> Option<Vertex>):
\* one that yields nothing, and one per value that yields the vertex with
\* its `val` field replaced.
Updates == {None} \cup [val : Vals]
ApplyUpdate(update, vertex) ==
  IF update = None THEN None
  ELSE [vertex EXCEPT !.data = InsertKey(vertex.data, "val", update.val)]

\* vertex::vertex_to_cell: the handles go back into the data map.
vertex_to_cell(vertex) ==
  [id |-> vertex.id,
   schema |-> vertex.schema,
   data |-> InsertKey(InsertKey(InsertKey(vertex.data,
     INBOUND_KEY_ID, vertex.inbound), OUTBOUND_KEY_ID, vertex.outbound),
     UNDIRECTED_KEY_ID, vertex.undirected)]


\* vertex::txn_update: reads the current vertex inside the transaction and
\* hands it to the update function; a missing cell ends the transaction.
txn_update(S, id, update) ==
  IF id \notin DOMAIN S THEN Eff(S, {id}, {}, TxnErr("Aborted"))
  ELSE Bind(LAMBDA r : IF r = None THEN Eff(S, {id}, {}, OkUnit)
                       ELSE Eff(Put(S, id, vertex_to_cell(r)), {id}, {id}, OkUnit),
            ApplyUpdate(update, cell_to_vertex(S[id])))

\* ------------------------------------------------------------ GraphTransaction

\* The neb_txn.write of GraphTransaction::new_vertex and what follows, for
\* the cell r that vertex_to_cell_for_write made; a TxnError of the write
\* passes through the ?, and the transaction's write refuses an existing id
\* with a TxnError.
new_vertex_write(S, r, answer) ==
  IF ~r.ok THEN Eff(S, {}, {}, OkErr(r.err))
  ELSE IF answer # "Served" THEN Eff(S, {r.cell.id}, {}, TxnErr(answer))
  ELSE IF r.cell.id \in DOMAIN S THEN Eff(S, {r.cell.id}, {}, TxnErr("Aborted"))
  ELSE Eff(Put(S, r.cell.id, r.cell), {r.cell.id}, {r.cell.id},
           [outer |-> "Ok", inner |-> "Ok", vertex |-> cell_to_vertex(r.cell)])

new_vertex(S, schema_id, data, answer) ==
  Bind(LAMBDA r : new_vertex_write(S, r, answer),
       vertex_to_cell_for_write(Vertex_new(schema_id, data)))

\* A faulty variant of GraphTransaction::remove_vertex, which also takes the
\* removed vertex out of every Id List that holds it.
Detached(S, id) ==
  [a \in DOMAIN S \ {id} |->
     IF "owner" \in DOMAIN a
     THEN Segment(SelectSeq(S[a].ids, LAMBDA m : m # id), S[a].next)
     ELSE S[a]]
remove_vertex_cascading(S, id) ==
  IF ~IsOkOk(txn_remove(S, id).res) THEN txn_remove(S, id)
  ELSE Eff(Detached(S, id), {id}, {a \in DOMAIN S : a = id \/ "owner" \in DOMAIN a},
           OkUnit)

remove_vertex(S, id) == txn_remove(S, id)

remove_vertex_by_key(S, schema_id, key) ==
  remove_vertex(S, encode_cell_key(schema_id, key))

\* neb_txn.read(id): Err(TxnError) when the store fails the read or the cell
\* cannot be realized, else Ok(Some(cell)) or Ok(None).
txn_read(S, id, answer) ==
  IF answer # "Served" THEN TxnErr(answer)
  ELSE IF id \in DOMAIN S /\ S[id] = Unrealizable THEN TxnErr("NotRealizable")
  ELSE IF id \in DOMAIN S
  THEN [outer |-> "Ok", inner |-> "Ok", some |-> TRUE, cell |-> S[id]]
  ELSE [outer |-> "Ok", inner |-> "Ok", some |-> FALSE]

\* .map(|c| c.map(vertex::cell_to_vertex)) over the result r of neb_txn.read:
\* Err(e) stays Err(e), Ok(None) stays Ok(None), and the cell of Ok(Some) is
\* turned into a vertex.
OkOption(r) ==
  IF r.outer = "Err" THEN r
  ELSE IF r.some
  THEN [outer |-> "Ok", inner |-> "Ok", some |-> TRUE, vertex |-> cell_to_vertex(r.cell)]
  ELSE r

\* GraphTransaction::read_vertex; the id joins the transaction's reads.
txn_read_vertex(S, id, answer) == Eff(S, {id}, {}, OkOption(txn_read(S, id, answer)))

\* GraphTransaction::get_vertex.
txn_get_vertex(S, schema_id, key, answer) ==
  txn_read_vertex(S, encode_cell_key(schema_id, key), answer)

\* A faulty variant of GraphTransaction::update_vertex, which does not hand
\* the caller's function to txn_update.
update_vertex_unforwarded(S, id, update) == txn_update(S, id, None)

update_vertex(S, id, update) == txn_update(S, id, update)

update_vertex_by_key(S, schema_id, key, update) ==
  update_vertex(S, encode_cell_key(schema_id, key), update)

\* `?` lets a TxnError through; map_err wraps an EdgeError.
link_result(e) ==
  IF e.res.outer = "Err" THEN e
  ELSE IF e.res.inner = "Err"
  THEN Eff(e.S, e.reads, e.writes, OkErr(<<"EdgeError">> \o e.res.err))
  ELSE e

\* Faulty variants of link, which the properties below must tell from the
\* code's: the endpoints handed over in the wrong order, every edge linked
\* as a directed one, every edge linked as an undirected one, and an absent
\* schema taken for a schema of the wrong kind.
link_swapped(S, schema_id, from_id, to_id, body, fresh_id, answers) ==
  IF schema_type(schema_id) = None
  THEN Eff(S, {}, {}, OkErr(<<"EdgeSchemaNotFound">>))
  ELSE IF schema_type(schema_id).kind # "Edge"
  THEN Eff(S, {}, {}, OkErr(<<"SchemaNotEdge">>))
  ELSE IF schema_type(schema_id).attrs.edge_type = "Directed"
  THEN Bind(link_result, DirectedEdge_link(S, to_id, from_id, body, schema_id, fresh_id,
                                       answers))
  ELSE Bind(link_result, UndirectedEdge_link(S, from_id, to_id, body, schema_id, fresh_id,
                                       answers))
link_all_directed(S, schema_id, from_id, to_id, body, fresh_id, answers) ==
  IF schema_type(schema_id) = None
  THEN Eff(S, {}, {}, OkErr(<<"EdgeSchemaNotFound">>))
  ELSE IF schema_type(schema_id).kind # "Edge"
  THEN Eff(S, {}, {}, OkErr(<<"SchemaNotEdge">>))
  ELSE Bind(link_result, DirectedEdge_link(S, from_id, to_id, body, schema_id, fresh_id,
                                       answers))
link_all_undirected(S, schema_id, from_id, to_id, body, fresh_id, answers) ==
  IF schema_type(schema_id) = None
  THEN Eff(S, {}, {}, OkErr(<<"EdgeSchemaNotFound">>))
  ELSE IF schema_type(schema_id).kind # "Edge"
  THEN Eff(S, {}, {}, OkErr(<<"SchemaNotEdge">>))
  ELSE Bind(link_result, UndirectedEdge_link(S, from_id, to_id, body, schema_id, fresh_id,
                                       answers))
link_any_not_edge(S, schema_id, from_id, to_id, body, fresh_id, answers) ==
  IF schema_type(schema_id) = None
  THEN Eff(S, {}, {}, OkErr(<<"SchemaNotEdge">>))
  ELSE IF schema_type(schema_id).kind # "Edge"
  THEN Eff(S, {}, {}, OkErr(<<"SchemaNotEdge">>))
  ELSE IF schema_type(schema_id).attrs.edge_type = "Directed"
  THEN Bind(link_result, DirectedEdge_link(S, from_id, to_id, body, schema_id, fresh_id,
                                       answers))
  ELSE Bind(link_result, UndirectedEdge_link(S, from_id, to_id, body, schema_id, fresh_id,
                                       answers))

link(S, schema_id, from_id, to_id, body, fresh_id, answers) ==
  IF schema_type(schema_id) = None
  THEN Eff(S, {}, {}, OkErr(<<"EdgeSchemaNotFound">>))
  ELSE IF schema_type(schema_id).kind # "Edge"
  THEN Eff(S, {}, {}, OkErr(<<"SchemaNotEdge">>))
  ELSE IF schema_type(schema_id).attrs.edge_type = "Directed"
  THEN Bind(link_result, DirectedEdge_link(S, from_id, to_id, body, schema_id, fresh_id,
                                       answers))
  ELSE Bind(link_result, UndirectedEdge_link(S, from_id, to_id, body, schema_id, fresh_id,
                                       answers))

OkEdges(edges) == [outer |-> "Ok", inner |-> "Ok", edges |-> edges]

\* The loop of neighbourhoods over the member ids: the first member that does
\* not resolve ends the call with its error.
RECURSIVE ResolveMembers(_, _, _, _, _, _, _)
\* A faulty variant of the loop's match, which goes on to the next member
\* when one does not resolve.
ResolveNext_lenient(S, vertex_id, vertex_field, schema_id, ids, reads, edges, r) ==
  IF r.res.outer = "Err" THEN Eff(S, reads \cup r.reads, {}, r.res)
  ELSE IF r.res.inner = "Err"
  THEN ResolveMembers(S, vertex_id, vertex_field, schema_id, Tail(ids),
                      reads \cup r.reads, edges)
  ELSE ResolveMembers(S, vertex_id, vertex_field, schema_id, Tail(ids),
                      reads \cup r.reads, Append(edges, r.res.edge))
ResolveNext(S, vertex_id, vertex_field, schema_id, ids, reads, edges, r) ==
  IF r.res.outer = "Err" THEN Eff(S, reads \cup r.reads, {}, r.res)
  ELSE IF r.res.inner = "Err" THEN Eff(S, reads \cup r.reads, {}, r.res)
  ELSE ResolveMembers(S, vertex_id, vertex_field, schema_id, Tail(ids),
                      reads \cup r.reads, Append(edges, r.res.edge))
ResolveMembers(S, vertex_id, vertex_field, schema_id, ids, reads, edges) ==
  IF ids = <<>>
  THEN Eff(S, reads, {}, OkEdges(edges))
  ELSE ResolveNext(S, vertex_id, vertex_field, schema_id, ids, reads, edges,
                   edge_from_id(S, vertex_id, vertex_field, schema_id, Head(ids)))

\* A faulty variant of the match of neighbourhoods, whose loop starts at the
\* second member.
neighbourhoods_match_skipping(S, vertex_id, vertex_field, schema_id, l) ==
  IF l.res.outer = "Err" THEN l
  ELSE IF l.res.inner = "Err"
  THEN Eff(S, l.reads, {}, OkErr(<<"IdListError">> \o l.res.err))
  ELSE ResolveMembers(S, vertex_id, vertex_field, schema_id,
                      IF l.res.ids = <<>> THEN <<>> ELSE Tail(l.res.ids), l.reads, <<>>)

\* The match of neighbourhoods on what IdList::all returned (l).
neighbourhoods_match(S, vertex_id, vertex_field, schema_id, l) ==
  IF l.res.outer = "Err" THEN l
  ELSE IF l.res.inner = "Err"
  THEN Eff(S, l.reads, {}, OkErr(<<"IdListError">> \o l.res.err))
  ELSE ResolveMembers(S, vertex_id, vertex_field, schema_id, l.res.ids, l.reads, <<>>)

neighbourhoods(S, vertex_id, schema_id, ed, answer) ==
  Bind(LAMBDA l : neighbourhoods_match(S, vertex_id, as_field(ed), schema_id, l),
       IdList_all(S, vertex_id, as_field(ed), schema_id, answer))

\* ------------------------------------------------------------ closures
\* The vertices callers address in the link, list, update and remove
\* operations: the ones a key of Keys names under the first vertex group.
VertexIdsOf(ss) == {encode_cell_key(s, k) : s \in ss, k \in Keys}
VertexIds == VertexIdsOf({1})

\* The schemas the catalog holds as vertex groups and as edge groups.
VertexSchemas == {s \in DOMAIN schemas : schemas[s].kind = "Vertex"}
EdgeSchemas == {s \in DOMAIN schemas : schemas[s].kind = "Edge"}

\* The closures handed to graph_transaction.  A caller's closure issues one
\* operation; on a domain error it either returns TxnError::Aborted, the way
\* Graph::remove_vertex's own closure does, or ignores the error and
\* returns Ok.  A closure carries the answers the store gives to its calls.
LinkClosures ==
  [kind : {"link"}, schema : SchemaIds, from : VertexIds, to : VertexIds,
   body : {None, [w |-> 0]}, onErr : {"abort", "ignore"}, answers : LinkAnswers]
\* The link closures whose calls the store serves.
ServedLinkClosures == {c \in LinkClosures : c.answers = AllServed}
NeighbourhoodsClosures ==
  [kind : {"neighbourhoods"}, vertex : VertexIds, schema : SchemaIds,
   ed : EdgeDirection, onErr : {"ignore"}, answer : TxnAnswers]
\* Graph::remove_vertex's closure: txn.remove_vertex(id)?.map_err(|_| Aborted).
RemoveClosure(id) == [kind |-> "remove_vertex", id |-> id, onErr |-> "abort"]

\* Graph::update_vertex's closure: |txn| vertex::txn_update(txn, id, &update).
UpdateClosure(id, update) ==
  [kind |-> "update_vertex", id |-> id, update |-> update, onErr |-> "ignore"]
\* The closures that call GraphTransaction::update_vertex and
\* GraphTransaction::update_vertex_by_key.
TxnUpdateClosures ==
  [kind : {"txn_update_vertex"}, id : VertexIds, update : Updates,
   onErr : {"ignore"}]
TxnUpdateByKeyClosures ==
  [kind : {"txn_update_vertex_by_key"}, schema : {1}, key : Keys,
   update : Updates, onErr : {"ignore"}]

\* The closures that call GraphTransaction::remove_vertex and
\* GraphTransaction::remove_vertex_by_key, and abort on its error or not.
TxnRemoveClosures ==
  [kind : {"txn_remove_vertex"}, id : VertexIds, onErr : {"abort", "ignore"}]
TxnRemoveByKeyClosures ==
  [kind : {"txn_remove_vertex_by_key"}, schema : SchemaIds, key : Keys,
   onErr : {"abort", "ignore"}]
\* The closures that call GraphTransaction::read_vertex and
\* GraphTransaction::get_vertex, each with the answer its read gets.
TxnReadClosures ==
  [kind : {"txn_read_vertex"}, id : VertexIds, onErr : {"ignore"},
   answer : TxnAnswers]
TxnGetClosures ==
  [kind : {"txn_get_vertex"}, schema : SchemaIds, key : Keys, onErr : {"ignore"},
   answer : TxnAnswers]

\* What the closure returns after its operation returned e.res.
ClosureResult(c, e) ==
  IF e.res.outer = "Err" THEN e.res.txn_error
  ELSE IF e.res.inner = "Err" /\ c.onErr = "abort" THEN "Aborted"
  ELSE "Ok"

\* The operation closure c issues on a GraphTransaction whose view is S.
ClosureOp(S, c, fresh_id) ==
  CASE c.kind = "link" -> link(S, c.schema, c.from, c.to, c.body, fresh_id, c.answers)
    [] c.kind = "neighbourhoods" -> neighbourhoods(S, c.vertex, c.schema, c.ed, c.answer)
    [] c.kind = "remove_vertex" -> remove_vertex(S, c.id)
    [] c.kind = "txn_new_vertex" -> new_vertex(S, c.schema, c.data, c.answer)
    [] c.kind = "txn_remove_vertex" -> remove_vertex(S, c.id)
    [] c.kind = "txn_remove_vertex_by_key" ->
         remove_vertex_by_key(S, c.schema, c.key)
    [] c.kind = "txn_read_vertex" -> txn_read_vertex(S, c.id, c.answer)
    [] c.kind = "txn_get_vertex" -> txn_get_vertex(S, c.schema, c.key, c.answer)
    [] c.kind = "update_vertex" -> txn_update(S, c.id, c.update)
    [] c.kind = "txn_update_vertex" -> update_vertex(S, c.id, c.update)
    [] c.kind = "txn_update_vertex_by_key" ->
         update_vertex_by_key(S, c.schema, c.key, c.update)

\* ------------------------------------------------------------ engine
Idle == [pc |-> "idle"]
WriteSet(t) == DOMAIN t.wvals \cup t.wdel

\* The least of the body identifiers no cell and no other open transaction
\* holds.
FreshBodyId(p) ==
  Bind(LAMBDA ids : IF ids = {} THEN unit_id
                    ELSE CHOOSE b \in ids : \A c \in ids : b.lower <= c.lower,
       {b \in BodyIds : b \notin DOMAIN store /\
          \A q \in Procs \ {p} : txn[q].pc = "executed" => b \notin DOMAIN txn[q].wvals})

\* The GraphTransaction the wrapper builds: bound to the store transaction
\* it was handed.
GraphTxn(neb_txn) == [neb_txn |-> neb_txn]

\* The store transaction of invocation number `runs` of closure c, whose
\* operation did e on the GraphTransaction `handle`: the addresses read, the
\* buffered writes and removals, and the results.
TxnOf(c, runs, handle, e) ==
  [pc |-> "executed", closure |-> c, runs |-> runs, handle |-> handle,
   reads |-> e.reads,
   wvals |-> [a \in e.writes \cap DOMAIN e.S |-> e.S[a]],
   wdel |-> e.writes \ DOMAIN e.S,
   res |-> e.res, cres |-> ClosureResult(c, e), stale |-> FALSE]

\* A faulty variant of the wrapper, which drops what the closure returned
\* and returns Ok to the engine.
Executed_ok(S, c, fresh_id, runs) ==
  Bind(LAMBDA e : [TxnOf(c, runs, GraphTxn(runs), e) EXCEPT !.cres = "Ok"],
       ClosureOp(S, c, fresh_id))

\* The wrapper of graph_transaction, invoked by the engine with its store
\* transaction number `runs` (whose snapshot is S): a GraphTransaction over
\* that store transaction, handed to the closure.
Executed(S, c, fresh_id, runs) ==
  Bind(LAMBDA e : TxnOf(c, runs, GraphTxn(runs), e), ClosureOp(S, c, fresh_id))

\* Writes that reach the store make every open transaction that read or wrote
\* one of the written cells unrealizable.
Invalidate(p, written) ==
  [q \in Procs |->
     IF q # p /\ txn[q].pc = "executed" /\
        written \cap (txn[q].reads \cup WriteSet(txn[q])) # {}
     THEN [txn[q] EXCEPT !.stale = TRUE]
     ELSE txn[q]]

ApplyWrites(S, t) ==
  [a \in (DOMAIN S \ t.wdel) \cup DOMAIN t.wvals |->
     IF a \in DOMAIN t.wvals THEN t.wvals[a] ELSE S[a]]

\* What the caller of graph_transaction gets back, kept with the outer
\* result and the inner error of the closure's operation.
Returned(t, ret) ==
  [kind |-> t.closure.kind, ret |-> ret, outer |-> t.res.outer,
   err |-> IF t.res.outer = "Ok" /\ t.res.inner = "Err" THEN t.res.err ELSE <<>>]

\* The addresses of the list segments the store holds.
ListAddrs(S) == {a \in DOMAIN S : "owner" \in DOMAIN a}

\* The size of the store, by which the specifications bound the number of
\* links: an edge takes two list entries, or a body cell when its
\* registration did not complete.
RECURSIVE ListLoad(_, _)
ListLoad(S, as) ==
  IF as = {} THEN 0
  ELSE Len(S[CHOOSE x \in as : TRUE].ids)
       + ListLoad(S, as \ {CHOOSE x \in as : TRUE})
EdgeLoad(S) ==
  IF ListLoad(S, ListAddrs(S)) > 2 * Cardinality(BodyIds \cap DOMAIN S)
  THEN ListLoad(S, ListAddrs(S))
  ELSE 2 * Cardinality(BodyIds \cap DOMAIN S)


\* Graph::graph_transaction(func) with no other transaction open: the
\* engine's single run of a transaction that nothing can invalidate commits,
\* or drops the writes when the closure returned a TxnError.
GraphTransaction(c) ==
  /\ constructed
  /\ \A p \in Procs : txn[p].pc = "idle"
  /\ \E t \in {Executed(store, c, FreshBodyId("caller"), 1)} :
       /\ store' = IF t.cres = "Ok" THEN ApplyWrites(store, t) ELSE store
       /\ last' = Returned(t, t.cres)
  /\ UNCHANGED <<nebSchemas, schemas, constructed, boot, txn>>

Link(c) ==
  /\ c \in ServedLinkClosures
  /\ EdgeLoad(store) + 2 <= 2 * MaxLinks
  /\ GraphTransaction(c)

Neighbourhoods(c) ==
  /\ c \in NeighbourhoodsClosures
  /\ GraphTransaction(c)

\* Graph::remove_vertex(id).
RemoveVertex(id) == GraphTransaction(RemoveClosure(id))

\* Graph::remove_vertex_by_key(schema_id, key).
RemoveVertexByKey(schema_id, key) ==
  /\ key \in Keys
  /\ GraphTransaction(RemoveClosure(encode_cell_key(schema_id, key)))

\* graph_transaction over a closure that calls remove_vertex on it.
TxnRemoveVertex(c) ==
  /\ c \in TxnRemoveClosures
  /\ GraphTransaction(c)

\* graph_transaction over a closure that calls remove_vertex_by_key on it.
TxnRemoveVertexByKey(c) ==
  /\ c \in TxnRemoveByKeyClosures
  /\ GraphTransaction(c)

\* graph_transaction over a closure that calls read_vertex on it.
TxnReadVertex(c) ==
  /\ c \in TxnReadClosures
  /\ GraphTransaction(c)

\* graph_transaction over a closure that calls get_vertex on it.
TxnGetVertex(c) ==
  /\ c \in TxnGetClosures
  /\ GraphTransaction(c)

\* Graph::update_vertex(id, update): neb_client.transaction over txn_update.
UpdateVertex(id, update) == GraphTransaction(UpdateClosure(id, update))

\* Graph::update_vertex_by_key(schema_id, key, update).
UpdateVertexByKey(schema_id, key, update) ==
  /\ key \in Keys
  /\ GraphTransaction(UpdateClosure(encode_cell_key(schema_id, key), update))

\* graph_transaction over a closure that calls update_vertex on it.
TxnUpdateVertex(c) ==
  /\ c \in TxnUpdateClosures
  /\ GraphTransaction(c)

\* graph_transaction over a closure that calls update_vertex_by_key on it.
TxnUpdateVertexByKey(c) ==
  /\ c \in TxnUpdateByKeyClosures
  /\ GraphTransaction(c)

\* --- the same call with other callers' transactions open: the engine's steps
\* Graph::graph_transaction(func) called by p: its one call of
\* neb_client.transaction, whose result is what it returns.
GraphTransactionBegin(p, c) ==
  /\ constructed
  /\ txn[p].pc = "idle"
  /\ txn' = [txn EXCEPT ![p] = [pc |-> "open", closure |-> c, runs |-> 0, calls |-> 1]]
  /\ UNCHANGED <<nebSchemas, schemas, constructed, boot, store, last>>

\* The engine invokes the wrapper: a GraphTransaction over a new store
\* transaction, on which the closure runs against the committed snapshot.
TxnExec(p) ==
  /\ txn[p].pc = "open"
  /\ txn' = [txn EXCEPT ![p] =
               InsertKey(Executed(store, txn[p].closure, FreshBodyId(p), txn[p].runs + 1),
                         "calls", txn[p].calls)]
  /\ UNCHANGED <<nebSchemas, schemas, constructed, boot, store, last>>

\* What is left of p's transaction once graph_transaction has returned ret:
\* the last invocation's handle, result and write set.
Done(t, ret) ==
  [pc |-> "done", closure |-> t.closure, runs |-> t.runs, calls |-> t.calls,
   handle |-> t.handle, ret |-> ret, res |-> t.res, cres |-> t.cres,
   wrote |-> WriteSet(t)]

\* The closure returned Ok and nothing it read or wrote changed: commit.
TxnCommit(p) ==
  /\ txn[p].pc = "executed" /\ txn[p].cres = "Ok" /\ ~txn[p].stale
  /\ store' = ApplyWrites(store, txn[p])
  /\ txn' = [Invalidate(p, WriteSet(txn[p])) EXCEPT ![p] = Done(txn[p], "Ok")]
  /\ last' = Returned(txn[p], "Ok")
  /\ UNCHANGED <<nebSchemas, schemas, constructed, boot>>

\* The closure returned Ok but the transaction is not realizable: the engine
\* drops its writes and invokes the closure again.
TxnRetry(p) ==
  /\ txn[p].pc = "executed" /\ txn[p].cres = "Ok" /\ txn[p].stale
  /\ txn' = [txn EXCEPT ![p] = [pc |-> "open", closure |-> txn[p].closure,
                                runs |-> txn[p].runs, calls |-> txn[p].calls]]
  /\ UNCHANGED <<nebSchemas, schemas, constructed, boot, store, last>>

\* The closure returned a TxnError: the writes are dropped and the error is
\* returned to the caller of graph_transaction as it is.
TxnAbort(p) ==
  /\ txn[p].pc = "executed" /\ txn[p].cres # "Ok"
  /\ txn' = [txn EXCEPT ![p] = Done(txn[p], txn[p].cres)]
  /\ last' = Returned(txn[p], txn[p].cres)
  /\ UNCHANGED <<nebSchemas, schemas, constructed, boot, store>>

\* The closure returned Ok but the transaction is not realizable and the
\* engine gives up: the writes are dropped and the engine's own TxnError is
\* what graph_transaction returns.
EngineErrors == {"TooManyRetry"}
TxnGiveUp(p, e) ==
  /\ txn[p].pc = "executed" /\ txn[p].cres = "Ok" /\ txn[p].stale
  /\ txn' = [txn EXCEPT ![p] = Done(txn[p], e)]
  /\ last' = Returned(txn[p], e)
  /\ UNCHANGED <<nebSchemas, schemas, constructed, boot, store>>

\* ------------------------------------------------------------ Graph facade
\* Graph::new by caller p, one store or catalog round trip per step; nothing
\* is held between the steps, so the steps of several callers interleave.
\* boot[p] is the caller's position: the schema id check_schema is at and
\* the ids for which this call has issued new_schema_with_id.
NotBooting == [pc |-> "idle"]
Checking(schema_id, created) ==
  [pc |-> "check", schema |-> schema_id, created |-> created]
Creating(schema_id, created) ==
  [pc |-> "create", schema |-> schema_id, created |-> created]

\* Graph::new is called: check_base_schemas starts with the Id List schema.
GraphNew(p) ==
  /\ boot[p] = NotBooting
  /\ boot' = [boot EXCEPT ![p] = Checking(ID_LIST_SCHEMA_ID, {})]
  /\ UNCHANGED <<nebSchemas, schemas, constructed, store, txn, last>>

\* check_schema returned Ok(()) for boot[p].schema: check_base_schemas goes
\* on to the type list schema, or Graph::new returns the Graph.
check_schema_done(p, created) ==
  IF boot[p].schema = ID_LIST_SCHEMA_ID
  THEN /\ boot' = [boot EXCEPT ![p] = Checking(TYPE_LIST_SCHEMA_ID, created)]
       /\ UNCHANGED <<constructed, last>>
  ELSE /\ boot' = [boot EXCEPT ![p] = NotBooting]
       /\ constructed' = TRUE
       /\ last' = [kind |-> "Graph::new", ret |-> "Ok",
                   created |-> created, err |-> <<>>]

\* A faulty variant of check_schema, which turns to new_schema_with_id
\* whether or not the catalog has the schema.
check_schema_always(p) ==
  /\ boot[p].pc = "check"
  /\ boot' = [boot EXCEPT ![p] = Creating(boot[p].schema, boot[p].created)]
  /\ UNCHANGED <<nebSchemas, schemas, constructed, store, txn, last>>

\* The match of check_schema on schemas.get_neb_schema(schema_id).
check_schema(p) ==
  /\ boot[p].pc = "check"
  /\ IF get_neb_schema(boot[p].schema) = None
     THEN /\ boot' = [boot EXCEPT ![p] = Creating(boot[p].schema, boot[p].created)]
          /\ UNCHANGED <<constructed, last>>
     ELSE check_schema_done(p, boot[p].created)
  /\ UNCHANGED <<nebSchemas, schemas, store, txn>>

\* The new_schema_with_id call of check_schema's None arm, which the schema
\* service accepts or rejects; a rejection leaves Graph::new with `?`.
new_schema_with_id(p, rejected) ==
  /\ boot[p].pc = "create"
  /\ IF rejected
     THEN /\ boot' = [boot EXCEPT ![p] = NotBooting]
          /\ last' = [kind |-> "Graph::new", ret |-> "ExecError",
                      created |-> boot[p].created, err |-> <<>>]
          /\ UNCHANGED <<nebSchemas, constructed>>
     ELSE /\ nebSchemas' = nebSchemas \cup {boot[p].schema}
          /\ check_schema_done(p, boot[p].created \cup {boot[p].schema})
  /\ UNCHANGED <<schemas, store, txn>>


\* Graph::new_vertex_group(schema).
NewVertexGroup(schema, answer) ==
  /\ constructed
  /\ \E r \in {new_vertex_group(schema, answer)} :
       /\ schemas' = r.schemas
       /\ last' = [kind |-> "new_vertex_group",
                   ret |-> IF r.ok THEN "Ok" ELSE "SchemaError", err |-> <<>>]
  /\ UNCHANGED <<nebSchemas, constructed, boot, store, txn>>

\* Graph::new_edge_group(schema, edge_attrs).
NewEdgeGroup(schema, edge_attrs, answer) ==
  /\ constructed
  /\ \E r \in {new_edge_group(schema, edge_attrs, answer)} :
       /\ schemas' = r.schemas
       /\ last' = [kind |-> "new_edge_group",
                   ret |-> IF r.ok THEN "Ok" ELSE "SchemaError", err |-> <<>>]
  /\ UNCHANGED <<nebSchemas, constructed, boot, store, txn>>

\* The data maps callers hand to new_vertex: the conforming ones, one that
\* lacks a field of the layout and one that carries an adjacency key.
ConformingData == [key : Keys, val : Vals]
DataInputs ==
  ConformingData \cup
  {[key |-> 1]} \cup
  {[key |-> 1, val |-> 0, _inbound |-> encode_cell_key(1, 2)]}

\* The match of Graph::new_vertex on write_cell's answer and what follows,
\* for the cell r that vertex_to_cell_for_write made; a served write_cell
\* refuses an existing id.
NewVertexWrite(r, answer) ==
  IF ~r.ok
  THEN /\ last' = [kind |-> "new_vertex", ret |-> "Err", err |-> r.err]
       /\ UNCHANGED <<store, txn>>
  ELSE IF answer = "IOError"
  THEN /\ last' = [kind |-> "new_vertex", ret |-> "Err",
                   err |-> <<"RPCError", "IOError">>]
       /\ UNCHANGED <<store, txn>>
  ELSE IF answer = "Other"
  THEN /\ last' = [kind |-> "new_vertex", ret |-> "Err",
                   err |-> <<"WriteError", "Other">>]
       /\ UNCHANGED <<store, txn>>
  ELSE IF r.cell.id \in DOMAIN store
  THEN /\ last' = [kind |-> "new_vertex", ret |-> "Err",
                   err |-> <<"WriteError", "CellAlreadyExisted">>]
       /\ UNCHANGED <<store, txn>>
  ELSE /\ store' = Put(store, r.cell.id, r.cell)
       /\ txn' = Invalidate("caller", {r.cell.id})
       /\ last' = [kind |-> "new_vertex", ret |-> "Ok", err |-> <<>>,
                   id |-> cell_to_vertex(r.cell).id]

\* Graph::new_vertex(schema_id, data).
NewVertex(schema_id, data, answer) ==
  /\ constructed
  /\ NewVertexWrite(vertex_to_cell_for_write(Vertex_new(schema_id, data)), answer)
  /\ UNCHANGED <<nebSchemas, schemas, constructed, boot>>

\* The closures that call GraphTransaction::new_vertex, each with the answer
\* its write gets.
NewVertexClosures ==
  [kind : {"txn_new_vertex"}, schema : SchemaIds, data : DataInputs,
   onErr : {"abort", "ignore"}, answer : TxnAnswers]

TxnNewVertex(c) ==
  /\ c \in NewVertexClosures
  /\ GraphTransaction(c)

\* What Graph::read_vertex returned, r, as the caller sees it.
ReadReturned(kind, r) ==
  [kind |-> kind, ret |-> IF r.ok THEN "Ok" ELSE "Err",
   err |-> IF r.ok THEN <<>> ELSE r.err, some |-> r.some]

\* Graph::read_vertex(id).
ReadVertex(id, answer) ==
  /\ constructed
  /\ last' = ReadReturned("read_vertex", read_vertex(store, id, answer))
  /\ UNCHANGED <<nebSchemas, schemas, constructed, boot, store, txn>>

\* Graph::get_vertex(schema_id, key).
GetVertex(schema_id, key, answer) ==
  /\ constructed
  /\ last' = ReadReturned("get_vertex", get_vertex(store, schema_id, key, answer))
  /\ UNCHANGED <<nebSchemas, schemas, constructed, boot, store, txn>>

\* ------------------------------------------------------------ specifications
NoCall == [kind |-> "none", ret |-> "Ok", err |-> <<>>]

\* No Graph yet, on a catalog without the built-in schemas: callers
\* construct Graphs, concurrently.
BootInit ==
  /\ nebSchemas = {}
  /\ schemas = <<>>
  /\ constructed = FALSE
  /\ boot = [p \in Procs |-> NotBooting]
  /\ store = <<>>
  /\ txn = [p \in Procs |-> Idle]
  /\ last = NoCall

BootNext ==
  \/ \E p \in Procs : GraphNew(p)
  \/ \E p \in Procs : check_schema(p)
  \/ \E p \in Procs, rejected \in BOOLEAN : new_schema_with_id(p, rejected)

BootSpec == BootInit /\ [][BootNext]_vars

\* The groups callers register on the Graph: for an edge group, the schema
\* and the attributes handed to new_edge_group.  The edge groups with the
\* schema ids 2 and 4 are directed, those with 3 and 5 undirected; those
\* with 4 and 5 have bodies.
EdgeGroupsOf(ids) ==
  {[schema |-> [id |-> i, fields |-> IF i \in {4, 5} THEN {"w"} ELSE {}],
    attrs |-> [edge_type |-> IF i \in {2, 4} THEN "Directed" ELSE "Undirected",
               has_body |-> i \in {4, 5}]] : i \in ids}
\* The catalog that holds the descriptors ds.
CatalogOf(ds) == [id \in {d.id : d \in ds} |-> CHOOSE d \in ds : d.id = id]

\* A Graph was constructed over an empty store and a catalog without user
\* schemas.
Init ==
  /\ nebSchemas = BaseSchemaIds
  /\ schemas = <<>>
  /\ constructed = TRUE
  /\ boot = [p \in Procs |-> NotBooting]
  /\ store = <<>>
  /\ txn = [p \in Procs |-> Idle]
  /\ last = NoCall

\* One caller at a time: every facade call and every transaction runs to
\* its end before the next begins.  The groups registered are a vertex group
\* and a directed edge group without bodies; the store serves the calls of a link.
\* The cells callers hand to remove_vertex: vertices, and the head segments
\* of the vertices' Outbound lists.
RemovedIds ==
  VertexIds \cup
  {ListAddr(v, OUTBOUND_KEY_ID, g.schema.id) : v \in VertexIds, g \in EdgeGroupsOf({2})}
Next ==
  \/ \E g \in {VertexSchema(1)}, a \in SchemaAnswers : NewVertexGroup(g, a)
  \/ \E g \in EdgeGroupsOf({2}), a \in SchemaAnswers : NewEdgeGroup(g.schema, g.attrs, a)
  \/ \E s \in SchemaIds, d \in DataInputs, w \in StoreAnswers : NewVertex(s, d, w)
  \/ \E c \in NewVertexClosures : TxnNewVertex(c)
  \/ \E id \in VertexIds, r \in StoreAnswers : ReadVertex(id, r)
  \/ \E s \in SchemaIds, k \in Keys, r \in StoreAnswers : GetVertex(s, k, r)
  \/ \E c \in ServedLinkClosures : Link(c)
  \/ \E c \in NeighbourhoodsClosures : Neighbourhoods(c)
  \/ \E id \in RemovedIds : RemoveVertex(id)
  \/ \E s \in SchemaIds, k \in Keys : RemoveVertexByKey(s, k)
  \/ \E c \in TxnRemoveClosures : TxnRemoveVertex(c)
  \/ \E c \in TxnRemoveByKeyClosures : TxnRemoveVertexByKey(c)
  \/ \E c \in TxnReadClosures : TxnReadVertex(c)
  \/ \E c \in TxnGetClosures : TxnGetVertex(c)
  \/ \E id \in VertexIds, u \in Updates : UpdateVertex(id, u)
  \/ \E s \in VertexSchemas, k \in Keys, u \in Updates : UpdateVertexByKey(s, k, u)
  \/ \E c \in TxnUpdateClosures : TxnUpdateVertex(c)
  \/ \E c \in TxnUpdateByKeyClosures : TxnUpdateVertexByKey(c)

Spec == Init /\ [][Next]_vars

\* Callers that register groups and create, read and remove vertices, one at
\* a time: two vertex groups and an edge group.
CreateNext ==
  \/ \E g \in {VertexSchema(1), VertexSchema(5)}, a \in SchemaAnswers : NewVertexGroup(g, a)
  \/ \E g \in EdgeGroupsOf({2}), a \in SchemaAnswers : NewEdgeGroup(g.schema, g.attrs, a)
  \/ \E s \in SchemaIds, d \in DataInputs, w \in StoreAnswers : NewVertex(s, d, w)
  \/ \E c \in NewVertexClosures : TxnNewVertex(c)
  \/ \E id \in VertexIdsOf({1, 5}), r \in StoreAnswers : ReadVertex(id, r)
  \/ \E s \in SchemaIds, k \in Keys, r \in StoreAnswers : GetVertex(s, k, r)
  \/ \E id \in VertexIdsOf({1, 5}) : RemoveVertex(id)
  \/ \E s \in SchemaIds, k \in Keys : RemoveVertexByKey(s, k)

CreateSpec == Init /\ [][CreateNext]_vars

\* Callers that register a vertex group and an edge group and create and
\* remove vertices, one at a time.
ValidateNext ==
  \/ \E g \in {VertexSchema(1)}, a \in SchemaAnswers : NewVertexGroup(g, a)
  \/ \E g \in EdgeGroupsOf({2}), a \in SchemaAnswers : NewEdgeGroup(g.schema, g.attrs, a)
  \/ \E s \in SchemaIds, d \in DataInputs, w \in StoreAnswers : NewVertex(s, d, w)
  \/ \E c \in NewVertexClosures : TxnNewVertex(c)
  \/ \E id \in VertexIds : RemoveVertex(id)

ValidateSpec == Init /\ [][ValidateNext]_vars

\* The store after a Graph was constructed, the first vertex group
\* registered and every vertex of it created.
RECURSIVE WithVertices(_, _)
WithVertices(S, ds) ==
  IF ds = {} THEN S
  ELSE WithVertices(
         Bind(LAMBDA cell : Put(S, cell.id, cell),
              vertex_to_cell_for_write(Vertex_new(1, CHOOSE x \in ds : TRUE)).cell),
         ds \ {CHOOSE x \in ds : TRUE})
Populated == WithVertices(<<>>, {d \in ConformingData : d.val = 0})

PopulatedInit ==
  /\ nebSchemas = BaseSchemaIds
  /\ schemas = CatalogOf({AsVertex(VertexSchema(1))})
  /\ constructed = TRUE
  /\ boot = [p \in Procs |-> NotBooting]
  /\ store = Populated
  /\ txn = [p \in Procs |-> Idle]
  /\ last = NoCall

\* Callers that register directed edge groups, link and list, one at a
\* time, on the populated store; the store serves the calls of a link.
ChainLink(c) ==
  /\ c \in ServedLinkClosures
  /\ EdgeLoad(store) + 2 <= 2 * MaxChain
  /\ GraphTransaction(c)

ChainNext ==
  \/ \E g \in EdgeGroupsOf({2, 4}), a \in SchemaAnswers : NewEdgeGroup(g.schema, g.attrs, a)
  \/ \E c \in ServedLinkClosures : ChainLink(c)
  \/ \E c \in NeighbourhoodsClosures : Neighbourhoods(c)

ChainSpec == PopulatedInit /\ [][ChainNext]_vars

\* The same callers with undirected edge groups, without and with bodies.
UndirectedNext ==
  \/ \E g \in EdgeGroupsOf({3, 5}), a \in SchemaAnswers : NewEdgeGroup(g.schema, g.attrs, a)
  \/ \E c \in ServedLinkClosures : ChainLink(c)
  \/ \E c \in NeighbourhoodsClosures : Neighbourhoods(c)

UndirectedSpec == PopulatedInit /\ [][UndirectedNext]_vars

\* Callers that list the edges of a vertex whose Outbound list, under an edge
\* group with bodies, holds up to MaxMembers members; the store is shared
\* with other clients, so a member's body cell is there, or gone, or changed
\* under the transaction.
MaxMembers == 3
MemberIds == {BodyId(n) : n \in 1..MaxMembers}
ListedVertex == encode_cell_key(1, 1)
ListedSchema == 4

\* S after the members of q were appended, in order, to the list at head.
RECURSIVE Chained(_, _, _)
Chained(S, head, q) ==
  IF q = <<>> THEN S
  ELSE AppendAt(Chained(S, head, SubSeq(q, 1, Len(q) - 1)), head, q[Len(q)]).S

\* S with the body cells that bs marks.
WithBodies(S, bs) ==
  [a \in DOMAIN S \cup {m \in MemberIds : bs[m] # "gone"} |->
     IF a \notin MemberIds THEN S[a]
     ELSE IF bs[a] = "changed" THEN Unrealizable
     ELSE BodyCell(a, ListedSchema, [w |-> 0], ListedVertex, encode_cell_key(1, 2))]

ResolveInit ==
  /\ nebSchemas = BaseSchemaIds
  /\ schemas = CatalogOf({AsVertex(VertexSchema(1))} \cup
                         {AsEdge(g.schema, g.attrs) : g \in EdgeGroupsOf({ListedSchema})})
  /\ constructed = TRUE
  /\ boot = [p \in Procs |-> NotBooting]
  /\ \E n \in 0..MaxMembers :
       \E q \in [1..n -> MemberIds], bs \in [MemberIds -> {"there", "gone", "changed"}] :
         /\ \A i \in DOMAIN q, j \in DOMAIN q : q[i] = q[j] => i = j
         /\ store = WithBodies(
                       Chained(Materialize(Populated, ListedVertex, OUTBOUND_KEY_ID),
                               ListAddr(ListedVertex, OUTBOUND_KEY_ID, ListedSchema), q),
                       bs)
  /\ txn = [p \in Procs |-> Idle]
  /\ last = NoCall

ListingNext ==
  \/ \E g \in EdgeGroupsOf({2}), a \in SchemaAnswers : NewEdgeGroup(g.schema, g.attrs, a)
  \/ \E c \in NeighbourhoodsClosures : Neighbourhoods(c)

ResolveSpec == ResolveInit /\ [][ListingNext]_vars

\* Two callers, each running one transaction that links an edge, while
\* groups are registered: a directed group without bodies and an undirected
\* one with bodies.  A closure passes the body its group asks for and
\* returns TxnError::Aborted when link is refused.
ConcNext ==
  \/ \E g \in EdgeGroupsOf({2, 5}), a \in SchemaAnswers : NewEdgeGroup(g.schema, g.attrs, a)
  \/ \E p \in Procs, c \in LinkClosures :
       /\ c.onErr = "abort"
       /\ \E g \in EdgeGroupsOf({2, 5}) :
            c.schema = g.schema.id /\ (c.body # None <=> g.attrs.has_body)
       /\ GraphTransactionBegin(p, c)
  \/ \E p \in Procs : TxnExec(p)
  \/ \E p \in Procs : TxnCommit(p)
  \/ \E p \in Procs : TxnRetry(p)
  \/ \E p \in Procs : TxnAbort(p)
  \/ \E p \in Procs, e \in EngineErrors : TxnGiveUp(p, e)

ConcSpec == PopulatedInit /\ [][ConcNext]_vars

\* Two callers, each running one transaction that links a directed edge, on
\* a store that serves every call and an engine that does not give up.
FairNext ==
  \/ \E g \in EdgeGroupsOf({2, 4}), a \in SchemaAnswers : NewEdgeGroup(g.schema, g.attrs, a)
  \/ \E p \in Procs, c \in LinkClosures :
       /\ c.onErr = "abort"
       /\ c.answers = AllServed
       /\ c.schema \in {2, 4}
       /\ GraphTransactionBegin(p, c)
  \/ \E p \in Procs : TxnExec(p)
  \/ \E p \in Procs : TxnCommit(p)
  \/ \E p \in Procs : TxnRetry(p)
  \/ \E p \in Procs : TxnAbort(p)

\* The engine's loop runs in the caller's thread and every store round trip
\* returns: each step of an open transaction is eventually taken.
FairSpec ==
  /\ PopulatedInit /\ [][FairNext]_vars
  /\ \A p \in Procs :
       /\ WF_vars(TxnExec(p))
       /\ WF_vars(TxnCommit(p))
       /\ WF_vars(TxnRetry(p))
       /\ WF_vars(TxnAbort(p))

\* ------------------------------------------------------------ properties
\* What neighbourhoods(v, s, ed) returns on the committed cells S, when the
\* store serves the read of the list.
Listing(S, v, s, ed) == neighbourhoods(S, v, s, ed, "Served").res

\* Edge e, listed for `viewer`, references `other` as its opposite endpoint.
RefersTo(e, viewer, other) ==
  \/ e.a = viewer /\ e.b = other
  \/ e.a = other /\ e.b = viewer

\* The number of edges of the listing of `viewer` that reference `other`.
RefCount(S, viewer, s, ed, other) ==
  Cardinality({i \in DOMAIN Listing(S, viewer, s, ed).edges :
                 RefersTo(Listing(S, viewer, s, ed).edges[i], viewer, other)})

IsEdgeType(s, t) ==
  /\ schema_type(s) # None
  /\ schema_type(s).kind = "Edge"
  /\ schema_type(s).attrs.edge_type = t

\* This step is a transaction that linked c.from to c.to and committed.
LinkCommitted(c) ==
  /\ last'.kind = "link" /\ last'.ret = "Ok" /\ last'.err = <<>>
  /\ c.from \in DOMAIN store /\ c.to \in DOMAIN store
  /\ ChainLink(c)

\* C1 (as amended): a committed directed link(s, A, B) between existing
\* vertices adds exactly one edge referencing B to neighbourhoods(A, s,
\* Outbound) and exactly one edge referencing A to neighbourhoods(B, s,
\* Inbound); when A and B are different vertices, neighbourhoods(A, s,
\* Inbound) is the same as before the link.
C1_DirectedLinkAddsOne ==
  [][\A c \in LinkClosures :
       (IsEdgeType(c.schema, "Directed") /\ LinkCommitted(c)) =>
         /\ IsOkOk(Listing(store', c.from, c.schema, "Outbound"))
         /\ IsOkOk(Listing(store', c.to, c.schema, "Inbound"))
         /\ RefCount(store', c.from, c.schema, "Outbound", c.to)
              = RefCount(store, c.from, c.schema, "Outbound", c.to) + 1
         /\ RefCount(store', c.to, c.schema, "Inbound", c.from)
              = RefCount(store, c.to, c.schema, "Inbound", c.from) + 1
         /\ c.from # c.to =>
              Listing(store', c.from, c.schema, "Inbound")
                = Listing(store, c.from, c.schema, "Inbound")]_vars

\* C1 as stated: after a committed directed link(s, A, B) between existing
\* vertices, neighbourhoods(A, s, Outbound) contains exactly one edge
\* referencing B, neighbourhoods(B, s, Inbound) exactly one referencing A,
\* and neighbourhoods(A, s, Inbound) is the same as before the link.
C1_DirectedLinkExactlyOne ==
  [][\A c \in LinkClosures :
       (IsEdgeType(c.schema, "Directed") /\ LinkCommitted(c)) =>
         /\ RefCount(store', c.from, c.schema, "Outbound", c.to) = 1
         /\ RefCount(store', c.to, c.schema, "Inbound", c.from) = 1
         /\ Listing(store', c.from, c.schema, "Inbound")
              = Listing(store, c.from, c.schema, "Inbound")]_vars

\* A directed edge between two different vertices was just linked, the second
\* from its source under an edge group registered on this Graph.
C1_Witness ==
  /\ last.kind = "link" /\ last.ret = "Ok" /\ last.err = <<>>
  /\ \E a \in VertexIds : \E b \in VertexIds \ {a}, s \in EdgeSchemas :
       /\ IsEdgeType(s, "Directed")
       /\ a \in DOMAIN store /\ b \in DOMAIN store
       /\ RefCount(store, a, s, "Outbound", b) = 1
       /\ RefCount(store, b, s, "Inbound", a) = 1
       /\ Len(Listing(store, a, s, "Outbound").edges) = 2

\* C2: a committed undirected link(s, A, B) between existing vertices leaves
\* an edge referencing B in neighbourhoods(A, s, Undirected) and an edge
\* referencing A in neighbourhoods(B, s, Undirected), for an edge group
\* without bodies and for one with.
C2_UndirectedLink ==
  [][\A c \in LinkClosures :
       (IsEdgeType(c.schema, "Undirected") /\ LinkCommitted(c)) =>
         /\ IsOkOk(Listing(store', c.from, c.schema, "Undirected"))
         /\ IsOkOk(Listing(store', c.to, c.schema, "Undirected"))
         /\ RefCount(store', c.from, c.schema, "Undirected", c.to) >= 1
         /\ RefCount(store', c.to, c.schema, "Undirected", c.from) >= 1]_vars

\* An undirected edge between two different vertices was just linked, and
\* the two vertices are linked under a group without bodies and under a
\* group with bodies.
C2_Witness ==
  /\ last.kind = "link" /\ last.ret = "Ok" /\ last.err = <<>>
  /\ \E a \in VertexIds : \E b \in VertexIds \ {a} :
       /\ a \in DOMAIN store /\ b \in DOMAIN store
       /\ \A has_body \in BOOLEAN : \E s \in EdgeSchemas :
            /\ IsEdgeType(s, "Undirected")
            /\ schema_type(s).attrs.has_body = has_body
            /\ RefCount(store, a, s, "Undirected", b) >= 1
            /\ RefCount(store, b, s, "Undirected", a) >= 1

\* The member id under which t's edge is registered in the lists.
Pointer(t) ==
  IF t.res.edge.body = unit_id THEN t.closure.to ELSE t.res.edge.body

\* A link closure that meets link's preconditions for a directed schema the
\* catalog holds.
DirectedValid(c) ==
  /\ IsEdgeType(c.schema, "Directed")
  /\ schema_type(c.schema).attrs.has_body <=> c.body # None

\* Both callers run a transaction that links a distinct edge out of the
\* same vertex, under the same registered schema: each is about to be run by
\* the engine, or its link has succeeded.
SameOutbound ==
  /\ \A p \in Procs : txn[p].pc # "idle"
  /\ \A p \in Procs : DirectedValid(txn[p].closure)
  /\ \A p \in Procs : txn[p].pc = "open" \/ IsOkOk(txn[p].res)
  /\ txn["p1"].closure.from = txn["p2"].closure.from
  /\ txn["p1"].closure.schema = txn["p2"].closure.schema
  /\ txn["p1"].closure.body = None => txn["p1"].closure.to # txn["p2"].closure.to

BothCommitted ==
  \A p \in Procs : txn[p].pc = "done" /\ txn[p].ret = "Ok" /\ IsOkOk(txn[p].res)

\* The members of the Outbound list the two transactions appended to.
OutboundIds ==
  IdList_all(store, txn["p1"].closure.from, OUTBOUND_KEY_ID,
             txn["p1"].closure.schema, "Served").res.ids

Occurrences(ids, id) == Cardinality({i \in DOMAIN ids : ids[i] = id})

\* C3: two concurrent transactions that each link a distinct edge out of the
\* same vertex both eventually commit, and once both have, the vertex's
\* Outbound list holds both edge identifiers, each exactly once.
C3_NoLostUpdate ==
  /\ SameOutbound ~> (SameOutbound /\ BothCommitted)
  /\ [](SameOutbound /\ BothCommitted =>
          /\ Pointer(txn["p1"]) # Pointer(txn["p2"])
          /\ \A p \in Procs : Occurrences(OutboundIds, Pointer(txn[p])) = 1)

\* Both committed, one of them after the other's commit made it run again.
C3_Witness ==
  /\ SameOutbound /\ BothCommitted
  /\ \E p \in Procs : txn[p].runs = 2
  /\ Len(OutboundIds) = 2

\* This step is a transaction that called link as closure c does.
LinkCalled(c) == last'.kind = "link" /\ ChainLink(c)

\* What closure c's link does on the committed cells.
LinkOn(S, c) ==
  link(S, c.schema, c.from, c.to, c.body, FreshBodyId("caller"), c.answers)

\* C4: for an edge schema that requires a body, link without a body fails
\* with the BodyRequired error, reads and writes nothing and leaves every
\* cell unchanged.
C4_BodyRequired ==
  [][\A c \in LinkClosures :
       (/\ schema_type(c.schema) # None /\ schema_type(c.schema).kind = "Edge"
        /\ schema_type(c.schema).attrs.has_body /\ c.body = None
        /\ LinkCalled(c)) =>
         /\ last'.outer = "Ok" /\ last'.err = <<"BodyRequired">>
         /\ LinkOn(store, c).reads = {} /\ LinkOn(store, c).writes = {}
         /\ store' = store]_vars

\* C5: for an edge schema that does not require a body, link with a body
\* fails with the BodyShouldNotExisted error, reads and writes nothing and
\* leaves every cell unchanged.
C5_BodyShouldNotExisted ==
  [][\A c \in LinkClosures :
       (/\ schema_type(c.schema) # None /\ schema_type(c.schema).kind = "Edge"
        /\ ~schema_type(c.schema).attrs.has_body /\ c.body # None
        /\ LinkCalled(c)) =>
         /\ last'.outer = "Ok" /\ last'.err = <<"BodyShouldNotExisted">>
         /\ LinkOn(store, c).reads = {} /\ LinkOn(store, c).writes = {}
         /\ store' = store]_vars

\* Every adjacency list of the store, by its address.
AdjacencyLists(S) == [a \in ListAddrs(S) |-> S[a]]

\* C6: link with a schema id the catalog does not have returns the inner
\* error EdgeSchemaNotFound, with the id of a Vertex schema the inner error
\* SchemaNotEdge; in both cases the outer result is Ok, no cell is read or
\* written and every adjacency list is unchanged, whatever the store would
\* answer.  The catalog is the Graph's at the time of the call: an id is
\* refused until an edge group is registered under it.
C6_SchemaPrecondition ==
  [][\A c \in LinkClosures :
       (/\ schema_type(c.schema) = None \/ schema_type(c.schema).kind # "Edge"
        /\ LinkCalled(c)) =>
         /\ last'.outer = "Ok"
         /\ schema_type(c.schema) = None => last'.err = <<"EdgeSchemaNotFound">>
         /\ schema_type(c.schema) # None => last'.err = <<"SchemaNotEdge">>
         /\ \A answers \in LinkAnswers :
              /\ LinkOn(store, [c EXCEPT !.answers = answers]).res = LinkOn(store, c).res
              /\ LinkOn(store, [c EXCEPT !.answers = answers]).reads = {}
              /\ LinkOn(store, [c EXCEPT !.answers = answers]).writes = {}
         /\ store' = store
         /\ AdjacencyLists(store') = AdjacencyLists(store)]_vars

\* link was just refused for an absent schema, on a Graph that has
\* registered an edge group and linked under it, and has not registered
\* another.
C6_Witness ==
  /\ last.kind = "link" /\ last.outer = "Ok" /\ last.err = <<"EdgeSchemaNotFound">>
  /\ ListAddrs(store) # {}
  /\ \E g \in EdgeGroupsOf({2, 4}) : g.schema.id \in EdgeSchemas
  /\ \E g \in EdgeGroupsOf({2, 4}) : g.schema.id \notin DOMAIN schemas

\* This step is a new_vertex(s, d) that returned the created vertex.
Created(s, d) ==
  /\ last'.kind = "new_vertex" /\ last'.ret = "Ok"
  /\ NewVertex(s, d, "Served")

\* C7: after new_vertex(s, d) succeeds for a registered Vertex schema s and a
\* conforming map d, read_vertex by the new id and get_vertex by (s, key)
\* both return a vertex whose data is exactly d, with none of the three
\* adjacency fields in it.
C7_CreateReadRoundTrip ==
  [][\A s \in VertexSchemas, d \in ConformingData :
       Created(s, d) =>
         /\ last'.id = encode_cell_key(s, d.key)
         /\ read_vertex(store', last'.id, "Served").ok
         /\ read_vertex(store', last'.id, "Served").some
         /\ read_vertex(store', last'.id, "Served").vertex.data = d
         /\ DOMAIN read_vertex(store', last'.id, "Served").vertex.data \cap HiddenFields = {}
         /\ get_vertex(store', s, d.key, "Served") = read_vertex(store', last'.id, "Served")]_vars

\* A vertex with a non-default value was just created under the second
\* vertex group registered on this Graph, and reads back.
C7_Witness ==
  /\ last.kind = "new_vertex" /\ last.ret = "Ok"
  /\ Cardinality(VertexSchemas) = 2
  /\ last.id \notin VertexIds
  /\ read_vertex(store, last.id, "Served").some
  /\ read_vertex(store, last.id, "Served").vertex.data.val = 1
  /\ HiddenFields \subseteq DOMAIN store[last.id].data

\* The member id under which edge e is registered in its source's list.
MemberOf(e) == IF e.body = unit_id THEN e.b ELSE e.body

\* The members of IdList::all on `from`'s Outbound list under schema s.
OutboundAll(S, from, s) == IdList_all(S, from, OUTBOUND_KEY_ID, s, "Served").res.ids

\* C8: every committed directed link appends its member to the source's
\* Outbound list: all() returns the members it returned before followed by
\* the new one, whatever the number of segments, no segment cell holds more
\* than the capacity, and neighbourhoods resolves exactly these members, in
\* the same order.
C8_ChainingTransparent ==
  [][\A c \in LinkClosures :
       (IsEdgeType(c.schema, "Directed") /\ LinkCommitted(c)) =>
         /\ OutboundAll(store', c.from, c.schema)
              = Append(OutboundAll(store, c.from, c.schema),
                       IF c.body = None THEN c.to ELSE FreshBodyId("caller"))
         /\ \A a \in ListAddrs(store') : Len(store'[a].ids) <= LIST_CAPACITY
         /\ IsOkOk(Listing(store', c.from, c.schema, "Outbound"))
         /\ Len(Listing(store', c.from, c.schema, "Outbound").edges)
              = Len(OutboundAll(store', c.from, c.schema))
         /\ \A i \in DOMAIN OutboundAll(store', c.from, c.schema) :
              MemberOf(Listing(store', c.from, c.schema, "Outbound").edges[i])
                = OutboundAll(store', c.from, c.schema)[i]]_vars

\* One Outbound list holds more distinct members than a segment takes, in
\* two chained segment cells, and neighbourhoods returns them all.
C8_Witness ==
  \E a \in ListAddrs(store) :
    /\ a.field = OUTBOUND_KEY_ID /\ a = ListAddr(a.owner, a.field, a.schema)
    /\ Len(ChainFrom(store, a)) = 2
    /\ Len(store[a].ids) = LIST_CAPACITY
    /\ Len(OutboundAll(store, a.owner, a.schema)) = LIST_CAPACITY + 1
    /\ \A i, j \in 1..(LIST_CAPACITY + 1) :
         OutboundAll(store, a.owner, a.schema)[i] = OutboundAll(store, a.owner, a.schema)[j]
           => i = j
    /\ Len(Listing(store, a.owner, a.schema, "Outbound").edges) = LIST_CAPACITY + 1

\* This step is a remove_vertex_by_key(s, k) that returned Ok.
RemovedByKey(s, k) ==
  /\ last'.kind = "remove_vertex" /\ last'.ret = "Ok"
  /\ RemoveVertexByKey(s, k)

\* C9 (as amended): after remove_vertex_by_key(s, k) succeeds, the cell both
\* operations address, encode_cell_key(s, k), is gone, and get_vertex(s, k)
\* returns Ok(None) whenever the store serves its read; the missing cell is
\* never what a ReadError reports.  A read the store fails still ends in
\* that failure: an RPCError, or the ReadError the store gave.
C9_RemoveThenGetServed ==
  [][\A s \in SchemaIds, k \in Keys :
       RemovedByKey(s, k) =>
         /\ encode_cell_key(s, k) \in DOMAIN store
         /\ encode_cell_key(s, k) \notin DOMAIN store'
         /\ get_vertex(store', s, k, "Served") = [ok |-> TRUE, some |-> FALSE]
         /\ get_vertex(store', s, k, "IOError")
              = [ok |-> FALSE, some |-> FALSE, err |-> <<"RPCError", "IOError">>]
         /\ get_vertex(store', s, k, "Other")
              = [ok |-> FALSE, some |-> FALSE, err |-> <<"ReadError", "Other">>]]_vars

\* C9 as stated: after remove_vertex_by_key(s, k) succeeds, get_vertex(s, k)
\* returns Ok(None) and never a ReadError, whatever the store answers.
C9_RemoveThenGet ==
  [][\A s \in SchemaIds, k \in Keys, answer \in StoreAnswers :
       RemovedByKey(s, k) =>
         /\ get_vertex(store', s, k, answer).ok
         /\ ~get_vertex(store', s, k, answer).some]_vars

\* A vertex of the second vertex group was just removed by key, and another
\* vertex is still there.
C9_Witness ==
  /\ last.kind = "remove_vertex" /\ last.ret = "Ok"
  /\ \E s \in VertexSchemas \ {1}, k \in Keys : ~get_vertex(store, s, k, "Served").some
  /\ \E s \in VertexSchemas, k \in Keys : get_vertex(store, s, k, "Served").some

\* Caller p's Graph::new takes a step on a catalog that has both built-in
\* schemas: it issues no creation call and leaves the catalog unchanged, and
\* when it returns it returns Ok.
OnFullCatalog(p) ==
  (nebSchemas = BaseSchemaIds /\ boot[p].pc = "check" /\ check_schema(p)) =>
    /\ boot'[p].pc # "create"
    /\ nebSchemas' = nebSchemas
    /\ boot'[p] = NotBooting => (last'.ret = "Ok" /\ constructed')

\* Caller p turns to new_schema_with_id only from a check that found the
\* catalog without the schema, and the catalog changes only by gaining the
\* schema of such a call.
CreatedOnlyWhenAbsent(p) ==
  /\ (boot[p].pc = "check" /\ boot'[p].pc = "create") =>
       boot[p].schema \notin nebSchemas
  /\ (boot[p].pc = "create" /\ boot'[p] # boot[p]) =>
       nebSchemas' \in {nebSchemas, nebSchemas \cup {boot[p].schema}}
  /\ (boot[p].pc # "create" /\ boot'[p] # boot[p]) => nebSchemas' = nebSchemas

\* C10: constructing a Graph on a catalog that has both built-in schemas
\* issues no schema-creation call, leaves the catalog unchanged and
\* succeeds; a schema is created only when check_schema found its id absent.
C10_BootstrapIdempotent ==
  [][\A p \in Procs : OnFullCatalog(p) /\ CreatedOnlyWhenAbsent(p)]_vars

\* A Graph::new has returned Ok without a creation call, on a catalog that
\* an earlier construction filled, while the other caller is constructing.
C10_Witness ==
  /\ last.kind = "Graph::new" /\ last.ret = "Ok" /\ last.created = {}
  /\ nebSchemas = BaseSchemaIds
  /\ \E p \in Procs : boot[p].pc = "check"

\* The TxnError values graph_transaction hands back.
TxnErrors == {"Aborted", "NotRealizable"} \cup EngineErrors

\* The calls the facade makes on the caller's behalf, closure included.
FacadeKinds == {"new_vertex", "read_vertex", "get_vertex", "remove_vertex"}

\* C11: a facade call that ends in a domain failure (the operation's inner
\* error) returns an outcome that is not a transaction-engine abort:
\* Graph::remove_vertex of a missing or non-vertex cell included.
C11_DomainFailureNotAbort ==
  (last.kind \in FacadeKinds /\ last.err # <<>>) => last.ret \notin TxnErrors

\* Caller p's position moves as one call of neb_client.transaction does:
\* the closure is what the call was given, it is invoked by the engine only
\* (from "open": at the start, and after an unrealizable invocation that
\* returned Ok), and each invocation is the next store transaction.
EngineDriven(p) ==
  /\ txn[p].pc # "idle" =>
       /\ txn'[p].pc # "idle"
       /\ txn'[p].closure = txn[p].closure
       /\ txn'[p].calls = txn[p].calls
  /\ (txn[p].pc # "open" /\ txn'[p].pc = "open") =>
       \/ txn[p].pc = "idle" /\ txn'[p].runs = 0
       \/ /\ txn[p].pc = "executed" /\ txn[p].stale /\ txn[p].cres = "Ok"
          /\ txn'[p].runs = txn[p].runs
  /\ (txn[p].pc # "idle" /\ txn'[p].runs # txn[p].runs) =>
       /\ txn[p].pc = "open" /\ txn'[p].pc = "executed"
       /\ txn'[p].runs = txn[p].runs + 1
       /\ ~txn'[p].stale

\* graph_transaction returns to caller p: what it returns is the TxnError
\* the closure returned, or else what the engine ended with, Ok after a
\* commit or the engine's own TxnError, and the committed cells change only
\* with an Ok.
ReturnedUnchanged(p) ==
  (txn[p].pc = "executed" /\ txn'[p].pc = "done") =>
    /\ last'.ret = txn'[p].ret
    /\ txn[p].cres # "Ok" => txn'[p].ret = txn[p].cres
    /\ txn[p].cres = "Ok" => txn'[p].ret \in {"Ok"} \cup EngineErrors
    /\ txn'[p].ret # "Ok" => store' = store
    /\ txn'[p].runs = txn[p].runs

ListIds(S, owner, field, s) == IdList_all(S, owner, field, s, "Served").res.ids
\* The members of IdList::all on `to`'s Inbound list under schema s.
InboundAll(S, to, s) == ListIds(S, to, INBOUND_KEY_ID, s)

\* The adjacency fields in which an edge of type t is registered: at its
\* first endpoint and at its second.
FieldA(t) == IF t = "Directed" THEN OUTBOUND_KEY_ID ELSE UNDIRECTED_KEY_ID
FieldB(t) == IF t = "Directed" THEN INBOUND_KEY_ID ELSE UNDIRECTED_KEY_ID
TypeOf(s) == schema_type(s).attrs.edge_type

\* The edge body cells of the store.
EdgeBodies(S) == BodyIds \cap DOMAIN S

\* The edge whose body cell is m is registered under m at both of its ends:
\* once in each list, or twice in the one list of an undirected self-link.
BodyRegistered(S, m, s, a, b) ==
  IF FieldA(TypeOf(s)) = FieldB(TypeOf(s)) /\ a = b
  THEN Occurrences(ListIds(S, a, FieldA(TypeOf(s)), s), m) = 2
  ELSE /\ Occurrences(ListIds(S, a, FieldA(TypeOf(s)), s), m) = 1
       /\ Occurrences(ListIds(S, b, FieldB(TypeOf(s)), s), m) = 1

\* Member m of the list (v, field, s) of a group with bodies is the body
\* cell of an edge of s that has v at the end this list is for.
MemberHasBody(S, v, field, s, m) ==
  /\ m \in EdgeBodies(S)
  /\ S[m].schema = s
  /\ \/ field = FieldA(TypeOf(s)) /\ S[m].data["_vertex_a"] = v
     \/ field = FieldB(TypeOf(s)) /\ S[m].data["_vertex_b"] = v

\* Every edge is registered at both of its ends or at neither: an edge
\* without a body in the two lists of its endpoints, an edge with a body
\* cell under the cell's id, and a list holds nothing else.
BothEndsRegistered(S) ==
  /\ \A s \in EdgeSchemas, a \in VertexIds, b \in VertexIds :
       ~schema_type(s).attrs.has_body =>
         IF TypeOf(s) = "Directed"
         THEN Occurrences(ListIds(S, a, OUTBOUND_KEY_ID, s), b)
                = Occurrences(InboundAll(S, b, s), a)
         ELSE IF a # b
         THEN Occurrences(ListIds(S, a, UNDIRECTED_KEY_ID, s), b)
                = Occurrences(ListIds(S, b, UNDIRECTED_KEY_ID, s), a)
         ELSE Occurrences(ListIds(S, a, UNDIRECTED_KEY_ID, s), a) % 2 = 0
  /\ \A m \in EdgeBodies(S) :
       BodyRegistered(S, m, S[m].schema, S[m].data["_vertex_a"], S[m].data["_vertex_b"])
  /\ \A s \in EdgeSchemas, v \in VertexIds, field \in HiddenFields :
       /\ schema_type(s).attrs.has_body =>
            \A i \in DOMAIN ListIds(S, v, field, s) :
              MemberHasBody(S, v, field, s, ListIds(S, v, field, s)[i])
       /\ field \notin {FieldA(TypeOf(s)), FieldB(TypeOf(s))} =>
            ListIds(S, v, field, s) = <<>>
  /\ \A s \in SchemaIds \ EdgeSchemas, v \in VertexIds, field \in HiddenFields :
       ListIds(S, v, field, s) = <<>>

\* C13: in every committed state reached by interleaved link transactions,
\* directed and undirected, an edge is registered in its source's list
\* exactly when it is registered in its target's (a body cell is there
\* exactly when it is in both), and a transaction that ends with a TxnError,
\* of the closure, of a store call that failed after a part of the link was
\* written, or of the engine, leaves the committed cells as they were.
C13_LinkAtomic ==
  /\ []BothEndsRegistered(store)
  /\ [][\A p \in Procs :
          (txn[p].pc = "executed" /\ txn'[p].pc = "done" /\ txn'[p].ret # "Ok")
            => store' = store]_vars

\* A link was aborted by a store call that failed after the link had written
\* a part of itself, and the other caller's edge with a body is registered
\* at both ends.
C13_Witness ==
  /\ EdgeBodies(store) # {}
  /\ \E p \in Procs :
       /\ txn[p].pc = "done" /\ txn[p].ret = "NotRealizable"
       /\ txn[p].wrote # {}
  /\ \E p \in Procs : txn[p].pc = "done" /\ txn[p].ret = "Ok"

\* What edge::from_id returns for the i-th member of the list c names.
ListedIds(S, c) == ListIds(S, c.vertex, as_field(c.ed), c.schema)
MemberResult(S, c, i) ==
  edge_from_id(S, c.vertex, as_field(c.ed), c.schema, ListedIds(S, c)[i]).res
Failing(S, c) ==
  {i \in DOMAIN ListedIds(S, c) :
     MemberResult(S, c, i).outer = "Err" \/ MemberResult(S, c, i).inner = "Err"}
FirstFailing(S, c) == CHOOSE i \in Failing(S, c) : \A j \in Failing(S, c) : i <= j

\* C14: when the read of the list fails in the transaction, neighbourhoods
\* returns that TxnError as the outer result.  When every member of the list
\* resolves, it returns one edge per member, in list order; otherwise it
\* returns what the first member that does not resolve gave, its inner error
\* or the outer TxnError, and no edge list.
C14_FailFast ==
  [][\A c \in NeighbourhoodsClosures :
       (last'.kind = "neighbourhoods" /\ Neighbourhoods(c)) =>
         IF c.answer # "Served"
         THEN /\ last'.outer = "Err" /\ last'.ret = c.answer /\ last'.err = <<>>
              /\ neighbourhoods(store, c.vertex, c.schema, c.ed, c.answer).res
                   = TxnErr(c.answer)
         ELSE IF Failing(store, c) = {}
         THEN /\ Listing(store, c.vertex, c.schema, c.ed)
                   = OkEdges([i \in DOMAIN ListedIds(store, c) |->
                                MemberResult(store, c, i).edge])
              /\ last'.outer = "Ok" /\ last'.err = <<>> /\ last'.ret = "Ok"
         ELSE /\ Listing(store, c.vertex, c.schema, c.ed)
                   = MemberResult(store, c, FirstFailing(store, c))
              /\ "edges" \notin DOMAIN Listing(store, c.vertex, c.schema, c.ed)
              /\ last'.outer = MemberResult(store, c, FirstFailing(store, c)).outer
              /\ last'.outer = "Ok" =>
                   last'.err = MemberResult(store, c, FirstFailing(store, c)).err
              /\ last'.outer = "Err" =>
                   last'.ret = MemberResult(store, c, FirstFailing(store, c)).txn_error]_vars

\* neighbourhoods just returned a member's inner error although the list's
\* first member resolves and a later one cannot be read at all.
C14_Witness ==
  /\ last.kind = "neighbourhoods" /\ last.outer = "Ok" /\ last.err = <<"CellNotFound">>
  /\ \E c \in NeighbourhoodsClosures :
       /\ c.vertex = ListedVertex /\ c.schema = ListedSchema /\ c.ed = "Outbound"
       /\ Len(ListedIds(store, c)) = MaxMembers
       /\ FirstFailing(store, c) = 2
       /\ MemberResult(store, c, MaxMembers).outer = "Err"

\* The validation error Section "creation" expects for a schema id and a
\* data value on the Graph's catalog, <<>> when the input is valid.
ExpectedError(schema_id, data) ==
  IF schema_id \notin DOMAIN schemas THEN <<"SchemaNotFound">>
  ELSE IF schemas[schema_id].kind = "Edge" THEN <<"SchemaNotVertex">>
  ELSE IF data = ScalarValue THEN <<"DataNotMap">>
  ELSE IF ~(schemas[schema_id].fields \subseteq DOMAIN data)
  THEN <<"CannotGenerateCellByData">>
  ELSE <<>>

FacadeRejects(schema_id, data) ==
  /\ ExpectedError(schema_id, data) # <<>>
  /\ last'.kind = "new_vertex"
  /\ \E answer \in StoreAnswers : NewVertex(schema_id, data, answer)

TxnRejects(c) ==
  /\ ExpectedError(c.schema, c.data) # <<>>
  /\ last'.kind = "txn_new_vertex"
  /\ TxnNewVertex(c)

\* C15: vertex creation validates before any write.  Graph::new_vertex and
\* GraphTransaction::new_vertex answer SchemaNotFound for an absent schema
\* id, SchemaNotVertex for an Edge schema, DataNotMap for data that is not a
\* map and CannotGenerateCellByData for a map that does not fit the layout;
\* the store is left as it was, and in a transaction the error is the inner
\* result under a successful outer result, and the transaction aborts only
\* when the closure itself asks for it.
C15_CreationValidates ==
  /\ [][/\ \A s \in SchemaIds, d \in DataInputs :
            FacadeRejects(s, d) =>
              /\ last'.kind = "new_vertex"
              /\ last'.ret = "Err"
              /\ last'.err = ExpectedError(s, d)
              /\ store' = store
        /\ \A c \in NewVertexClosures :
            TxnRejects(c) =>
              /\ last'.kind = "txn_new_vertex"
              /\ (c.onErr = "ignore" => last'.ret = "Ok")
              /\ last'.outer = "Ok"
              /\ last'.err = ExpectedError(c.schema, c.data)
              /\ store' = store]_vars
  /\ [](\A s \in SchemaIds, a \in TxnAnswers :
          /\ ~vertex_to_cell_for_write(Vertex_new(s, ScalarValue)).ok
          /\ vertex_to_cell_for_write(Vertex_new(s, ScalarValue)).err
               = ExpectedError(s, ScalarValue)
          /\ new_vertex(store, s, ScalarValue, a).writes = {}
          /\ new_vertex(store, s, ScalarValue, a).res
               = OkErr(ExpectedError(s, ScalarValue)))

\* A transaction has returned the inner SchemaNotVertex of a creation under
\* the edge group registered on this Graph, which holds a vertex of the
\* vertex group registered on it; other schema ids are still absent.
C15_Witness ==
  /\ last.kind = "txn_new_vertex"
  /\ last.outer = "Ok"
  /\ last.err = <<"SchemaNotVertex">>
  /\ \E id \in VertexIds : id \in DOMAIN store
  /\ SchemaIds \ DOMAIN schemas # {}

\* The cells a creation step adds to the store.
CreatedCells ==
  IF last'.kind \in {"new_vertex", "txn_new_vertex"}
  THEN DOMAIN store' \ DOMAIN store
  ELSE {}

\* Cell id of S carries the three adjacency fields, each the unit id, and its
\* neighbourhoods are empty for every schema id in every direction.
FreshlyCreated(S, id) ==
  /\ HiddenFields \subseteq DOMAIN S[id].data
  /\ \A h \in HiddenFields : S[id].data[h] = unit_id
  /\ \A s \in SchemaIds, ed \in EdgeDirection :
       Listing(S, id, s, ed) = OkEdges(<<>>)

\* C16: every vertex cell written by a creation (Graph::new_vertex or
\* GraphTransaction::new_vertex) carries the three adjacency fields, each the
\* unit id whatever the caller's map held under those keys, so the created
\* vertex has empty neighbourhoods in all three directions for every edge
\* schema.
C16_CreatedAdjacencyUnit ==
  [][\A id \in CreatedCells : FreshlyCreated(store', id)]_vars

\* A vertex has just been created under an id whose earlier cell was linked,
\* under an edge group registered on this Graph, and removed: the lists of
\* the earlier cell are still stored.
C16_Witness ==
  /\ last.kind \in {"new_vertex", "txn_new_vertex"}
  /\ last.ret = "Ok"
  /\ last.err = <<>>
  /\ \E id \in VertexIds :
       /\ id \in DOMAIN store
       /\ \A h \in HiddenFields : store[id].data[h] = unit_id
       /\ \E a \in ListAddrs(store) :
            a.owner = id /\ a.schema \in EdgeSchemas /\ store[a].ids # <<>>

\* What an update of the stored vertex id with function u must leave: the
\* call succeeded; with nothing yielded, the store as it was; with a
\* replacement, a read of id returns it and no other cell has changed.
UpdateHolds(id, u) ==
  /\ last'.ret = "Ok"
  /\ last'.outer = "Ok"
  /\ last'.err = <<>>
  /\ u = None => store' = store
  /\ u # None =>
       /\ read_vertex(store', id, "Served").some
       /\ read_vertex(store', id, "Served").vertex
            = ApplyUpdate(u, read_vertex(store, id, "Served").vertex)
       /\ DOMAIN store' = DOMAIN store
       /\ \A a \in DOMAIN store \ {id} : store'[a] = store[a]

Stored(id) == id \in VertexIds /\ id \in DOMAIN store

\* C17: an update whose function yields nothing for the current vertex
\* completes successfully and leaves the stored cell unchanged; an update
\* whose function yields a replacement makes the replacement what a read
\* returns after commit.  This holds for Graph::update_vertex,
\* Graph::update_vertex_by_key and both forms on a GraphTransaction.
C17_UpdateNoOp ==
  [][\A u \in Updates :
       /\ \A id \in VertexIds :
            (Stored(id) /\ last'.kind = "update_vertex" /\ UpdateVertex(id, u))
              => UpdateHolds(id, u)
       /\ \A s \in VertexSchemas, k \in Keys :
            (/\ Stored(encode_cell_key(s, k))
             /\ last'.kind = "update_vertex"
             /\ UpdateVertexByKey(s, k, u))
              => UpdateHolds(encode_cell_key(s, k), u)
       /\ \A c \in TxnUpdateClosures :
            (/\ c.update = u
             /\ Stored(c.id)
             /\ last'.kind = "txn_update_vertex"
             /\ TxnUpdateVertex(c))
              => UpdateHolds(c.id, u)
       /\ \A c \in TxnUpdateByKeyClosures :
            (/\ c.update = u
             /\ Stored(encode_cell_key(c.schema, c.key))
             /\ last'.kind = "txn_update_vertex_by_key"
             /\ TxnUpdateVertexByKey(c))
              => UpdateHolds(encode_cell_key(c.schema, c.key), u)]_vars

\* An update on a GraphTransaction has returned Ok and the store holds a
\* vertex that has an edge registered.
C17_Witness ==
  /\ last.kind \in {"txn_update_vertex", "txn_update_vertex_by_key"}
  /\ last.ret = "Ok"
  /\ \E id \in VertexIds :
       /\ id \in DOMAIN store
       /\ store[id].data[OUTBOUND_KEY_ID] # unit_id

\* Caller p's link transaction was committed: its edge is live.
LiveEdgeOf(p) ==
  txn[p].pc = "done" /\ txn[p].ret = "Ok" /\ IsOkOk(txn[p].res)

\* The member under which p's edge stands in the list of one endpoint: the
\* body cell's id, or the other endpoint for an edge without a body.
MemberFor(p, other) ==
  IF txn[p].res.edge.body = unit_id THEN other ELSE txn[p].res.edge.body

\* p's live edge stands under m in the list (owner, field, s) as the list of
\* its source, and as the list of its target.
AtSource(p, owner, field, s, m) ==
  /\ LiveEdgeOf(p)
  /\ txn[p].closure.schema = s
  /\ txn[p].closure.from = owner
  /\ field = FieldA(TypeOf(s))
  /\ m = MemberFor(p, txn[p].closure.to)
AtTarget(p, owner, field, s, m) ==
  /\ LiveEdgeOf(p)
  /\ txn[p].closure.schema = s
  /\ txn[p].closure.to = owner
  /\ field = FieldB(TypeOf(s))
  /\ m = MemberFor(p, txn[p].closure.from)

\* The live edges member m of the list stands for, and the number of their
\* ends that are registered in the list.
LiveEdges(owner, field, s, m) ==
  {p \in Procs : AtSource(p, owner, field, s, m) \/ AtTarget(p, owner, field, s, m)}
LiveEnds(owner, field, s, m) ==
  Cardinality({p \in Procs : AtSource(p, owner, field, s, m)})
  + Cardinality({p \in Procs : AtTarget(p, owner, field, s, m)})

\* The lists of the store and their members.
ListKeys == VertexIds \X HiddenFields \X SchemaIds
ListMembers == VertexIds \cup BodyIds

\* What holds of the lists in every state: after any interleaving of link
\* transactions, committed at once, committed after being run again, or
\* aborted, a member identifier occurs in an (owner, direction, schema) list
\* once for each end of a live edge that is registered there, and never more
\* for a closure that ran more than once.  An undirected link of a vertex to
\* itself has both of its ends in one list.
MembershipPerEnd ==
  \A k \in ListKeys :
    Bind(LAMBDA ids :
           \A m \in ListMembers :
             Occurrences(ids, m) = LiveEnds(k[1], k[2], k[3], m),
         ListIds(store, k[1], k[2], k[3]))

\* C18: after any interleaving of link transactions, committed at once,
\* committed after being run again, or aborted, a member identifier occurs
\* in an (owner, direction, schema) list as many times as there are live
\* edges it stands for.
C18_MembershipCount ==
  \A k \in ListKeys :
    Bind(LAMBDA ids :
           \A m \in ListMembers :
             Occurrences(ids, m) = Cardinality(LiveEdges(k[1], k[2], k[3], m)),
         ListIds(store, k[1], k[2], k[3]))

\* The members of every Id List of vertex v, as IdList::all returns them.
Members(S, v) ==
  [s \in SchemaIds, ed \in EdgeDirection |->
     IdList_all(S, v, as_field(ed), s, "Served").res]

\* This step is Graph::remove_vertex(id).
Removes(id) == last'.kind = "remove_vertex" /\ RemoveVertex(id)

\* This step is a transaction whose closure c calls remove_vertex, or
\* remove_vertex_by_key, on its GraphTransaction.
TxnRemoves(c) ==
  \/ last'.kind = "txn_remove_vertex" /\ TxnRemoveVertex(c)
  \/ last'.kind = "txn_remove_vertex_by_key" /\ TxnRemoveVertexByKey(c)
RemovedId(c) ==
  IF c.kind = "txn_remove_vertex" THEN c.id ELSE encode_cell_key(c.schema, c.key)

\* The store lost the cell of vertex id and nothing else: every other cell,
\* the Id List cells included, is as it was, and every remaining vertex
\* lists the members it listed.
OnlyCellRemoved(id) ==
  /\ DOMAIN store' = DOMAIN store \ {id}
  /\ \A a \in DOMAIN store' : store'[a] = store[a]
  /\ ListAddrs(store') = ListAddrs(store)
  /\ \A v \in VertexIds \cap DOMAIN store' :
       Members(store', v) = Members(store, v)

\* C19: remove_vertex(id) validates that the vertex exists and deletes its
\* cell only: no other cell changes, every Id List cell is kept as it was,
\* and the lists of the other vertices keep their entries, those for the
\* removed vertex included; a missing vertex, or a cell that is not a
\* vertex, is refused and nothing changes.  This holds for
\* Graph::remove_vertex and for GraphTransaction's remove_vertex and
\* remove_vertex_by_key.
C19_RemovalNotCascading ==
  [][/\ \A id \in RemovedIds :
         Removes(id) =>
           IF id \in VertexIds \cap DOMAIN store
           THEN last'.ret = "Ok" /\ OnlyCellRemoved(id)
           ELSE last'.ret # "Ok" /\ store' = store
     /\ \A c \in TxnRemoveClosures \cup TxnRemoveByKeyClosures :
         TxnRemoves(c) =>
           IF RemovedId(c) \in DOMAIN store
           THEN /\ last'.ret = "Ok" /\ last'.err = <<>>
                /\ OnlyCellRemoved(RemovedId(c))
           ELSE /\ last'.outer = "Ok" /\ last'.err = <<"CellNotFound">>
                /\ last'.ret = "Ok" <=> c.onErr = "ignore"
                /\ store' = store]_vars

\* A vertex was removed and a stored vertex still lists it, under an edge
\* group registered on this Graph.
C19_Witness ==
  /\ last.kind = "remove_vertex"
  /\ last.ret = "Ok"
  /\ \E v \in VertexIds \cap DOMAIN store, gone \in VertexIds \ DOMAIN store,
        s \in EdgeSchemas, ed \in EdgeDirection :
       /\ IsOkOk(Members(store, v)[s, ed])
       /\ Occurrences(Members(store, v)[s, ed].ids, gone) > 0

================================================================
